---------------------------- MODULE Spec2Model ----------------------------
(***************************************************************************)
(* Model of the image variant pipeline of images-resized:                  *)
(*   ImageResizer.processImage        (src/src/index.js, lines 146-476)    *)
(*   CacheManager / generateCacheKey  (src/src/cache-manager.js)           *)
(*   processAndGenerateImages         (src/unnamed/part_001)               *)
(*   saveImageLocally                 (src/src/local-storage.js)           *)
(*   uploadImageToS3                  (src/unnamed/part_003)               *)
(*   resizeImage, DEFAULT_SIZES, ...  (src/src/utils.js)                   *)
(* A request is a small state machine whose program counter moves from one *)
(* await of processImage to the next.  The external collaborators (codec,  *)
(* file system, object store) answer nondeterministically: success or      *)
(* failure.                                                                *)
(***************************************************************************)
EXTENDS Integers, Sequences, FiniteSets, TLC

VARIABLES
    config,       \* the constructed ImageResizer: enable flags read from the environment
    req,          \* the current and the previous request: program counter,
                  \* arguments, locals, outcome
    issued,       \* number of processImage calls made so far
    cacheDirs,    \* fingerprints whose cache entry directory exists
    cachePayloads,\* the payload files <sizeKey>.<format> of the cache entries
    cacheMeta,    \* the metadata.json files of the cache entries
    localFiles,   \* filenames persisted under LOCAL_STORAGE_PATH -> payload
    s3Objects,    \* keys uploaded to the bucket -> payload
    api           \* the last direct CacheManager call and what it returned

vars ==
    <<config, req, issued, cacheDirs, cachePayloads, cacheMeta, localFiles,
      s3Objects, api>>

----------------------------------------------------------------------------
(* Bounds *)

\* Number of processImage calls issued, one after the other.
MaxRequests == 2

\* Number of direct setCachedImages calls the host application makes between
\* the requests.
MaxHostCalls == 1

\* Number of direct CacheManager calls (setCachedImages / getCachedImages /
\* clearCache) in the specification of the cache alone.
MaxCacheCalls == 3

\* Calls of a storage backend in a behaviour of SpecStore.
MaxStoreCalls == 2

\* The request in progress (or the last one made) and the one before it.
Reqs == {"current", "previous"}

----------------------------------------------------------------------------
(* Optional values: <<>> is undefined / null, <<x>> is x. *)

None == <<>>
Some(x) == <<x>>
IsSome(o) == Len(o) = 1
Get(o) == o[1]

Range(s) == {s[i] : i \in 1..Len(s)}

\* The keys of a sequence of <<key, value>> pairs, in order.
KeysOf(pairs) == [i \in 1..Len(pairs) |-> pairs[i][1]]

\* obj[key] = value on a JavaScript object kept as <<key, value>> pairs in
\* insertion order: an existing key keeps its place, a new one goes last.
PutPair(pairs, key, value) ==
    IF \E i \in 1..Len(pairs) : pairs[i][1] = key
    THEN [i \in 1..Len(pairs) |->
            IF pairs[i][1] = key THEN <<key, value>> ELSE pairs[i]]
    ELSE Append(pairs, <<key, value>>)

----------------------------------------------------------------------------
(* Static tables *)

\* utils.js: the default size profiles.
DEFAULT_SIZES ==
    <<  <<"small",  [width |-> 320,  defaultQuality |-> 80]>>,
        <<"medium", [width |-> 640,  defaultQuality |-> 85]>>,
        <<"large",  [width |-> 1024, defaultQuality |-> 90]>> >>

SizeKeys == Range(KeysOf(DEFAULT_SIZES))

\* this.sizes[sizeKey] of an instance whose table is `sizes`; callers only
\* ask for configured keys.
SizeConfigIn(sizes, sizeKey) ==
    (CHOOSE p \in Range(sizes) : p[1] = sizeKey)[2]

\* this.sizes[sizeKey] of an instance without customSizes.
SizeConfig(sizeKey) == SizeConfigIn(DEFAULT_SIZES, sizeKey)

\* utils.js: the formats the encoder accepts (gif is an input format only).
SUPPORTED_OUTPUT_FORMATS == {"jpeg", "png", "webp", "tiff", "avif"}

\* index.js: the media types processImage accepts.
SUPPORTED_IMAGE_MIME_TYPES ==
    {"image/jpeg", "image/png", "image/webp", "image/gif", "image/tiff"}

\* The payloads a caller may hand in: what file-type and the codec's metadata
\* report for each.  "txt" is not an image.
Payloads ==
    [ imgA |-> [mime |-> "image/jpeg", format |-> "jpeg", width |-> 800,
                height |-> 600, hasAlpha |-> FALSE],
      imgB |-> [mime |-> "image/png", format |-> "png", width |-> 200,
                height |-> 150, hasAlpha |-> TRUE],
      imgG |-> [mime |-> "image/gif", format |-> "gif", width |-> 400,
                height |-> 300, hasAlpha |-> TRUE],
      txt  |-> [mime |-> "text/plain", format |-> "none", width |-> 0,
                height |-> 0, hasAlpha |-> FALSE] ]


----------------------------------------------------------------------------
(* Request arguments *)

\* options.quality, options.processSizes, options.transformations are kept
\* with their JavaScript kind, so that the typeof / Array.isArray checks of
\* processImage have something to decide.
Undefined == [kind |-> "undefined", val |-> <<>>]
Num(n) == [kind |-> "number", val |-> <<n>>]
Arr(s) == [kind |-> "array", val |-> s]
Obj(pairs) == [kind |-> "object", val |-> pairs]
Other == [kind |-> "other", val |-> <<>>]

\* The options of a call with nothing set.
NoOptions ==
    [ outputFormat |-> "undefined", quality |-> Undefined,
      optimizeOutputFormat |-> FALSE, processSizes |-> Undefined,
      transformations |-> Undefined, filenameGenerator |-> "undefined" ]

\* What a caller-supplied filenameGenerator does; "undefined" is none given and
\* "notAFunction" a value that is not callable.
\*   genPlain   returns  <baseName>-<sizeKey or 'orig'>.<extension>
\*   genEmpty   returns  '' for every variant
\*   genEmptySizes  returns  a name for the original, '' for a size variant
\*   genThrows  throws a plain Error
FilenameGenerators ==
    {"genPlain", "genEmpty", "genEmptySizes", "genThrows"}

----------------------------------------------------------------------------
(* cache-manager.js: generateCacheKey *)

\* JSON.stringify of one value, as its token stream.
JsonValue(v) ==
    CASE v.kind = "number" -> <<"n", ToString(v.val[1])>>
      [] v.kind = "array" ->
            <<"[">> \o [i \in 1..Len(v.val) |-> v.val[i]] \o <<"]">>
      [] v.kind = "object" ->
            LET Flat[i \in 0..Len(v.val)] ==
                    IF i = 0 THEN <<>>
                    ELSE Flat[i - 1] \o <<v.val[i][1], ":", v.val[i][2]>>
            IN  <<"{">> \o Flat[Len(v.val)] \o <<"}">>
      [] OTHER -> <<"?">>

\* One member of the serialized object; JSON.stringify leaves out a member
\* whose value is undefined.
JsonMember(name, present, tokens) ==
    IF present THEN <<name, ":">> \o tokens ELSE <<>>

\* JSON.stringify(relevantOptions): the members in the order of the object
\* literal processImage builds (index.js 261-271); nothing is sorted.
JsonStringifyOptions(originalFilename, o) ==
       JsonMember("originalFilename", TRUE, <<"s", originalFilename>>)
    \o JsonMember("outputFormat", o.outputFormat # "undefined",
                  <<"s", o.outputFormat>>)
    \o JsonMember("quality", o.quality.kind # "undefined",
                  JsonValue(o.quality))
    \o JsonMember("optimizeOutputFormat", TRUE,
                  <<"b", IF o.optimizeOutputFormat THEN "true" ELSE "false">>)
    \o JsonMember("processSizes", o.processSizes.kind # "undefined",
                  JsonValue(o.processSizes))
    \o JsonMember("transformations", o.transformations.kind # "undefined",
                  JsonValue(o.transformations))
    \o JsonMember("filenameGenerator", o.filenameGenerator # "undefined",
                  <<"s", o.filenameGenerator>>)

\* `${imageHash}-${optionsHash}`: sha256 of the bytes and sha256 of the
\* serialized options.  The digest is taken to be injective, so a hash is
\* represented by what was hashed.
generateCacheKey(bytes, originalFilename, o) ==
    [ imageHash |-> bytes,
      optionsHash |-> JsonStringifyOptions(originalFilename, o) ]

----------------------------------------------------------------------------
(* part_001 (image-processor.js): processAndGenerateImages, and utils.js *)

\* String.prototype.toLowerCase on the format names a caller may pass.
ToLowerCase(str) ==
    CASE str = "PNG" -> "png"
      [] str = "WebP" -> "webp"
      [] OTHER -> str

\* The methods of a sharp instance a transformation key may name (a sample of
\* the codec's API: the documented transformations and two others).
SharpMethods ==
    {"rotate", "flip", "grayscale", "tint", "composite", "resize", "blur",
     "toFile"}

\* A variant that applies the five documented transformations only.
AppliedTransformationsClosedSet(transformations) ==
    IF transformations.kind # "object" THEN <<>>
    ELSE SelectSeq(KeysOf(transformations.val),
                   LAMBDA key : key \in {"rotate", "flip", "grayscale",
                                          "tint", "composite"})

\* part_001 72-107: the keys of `transformations` that end up applied to the
\* codec instance, in order.
AppliedTransformations(transformations) ==
    IF transformations.kind # "object" THEN <<>>
    ELSE SelectSeq(KeysOf(transformations.val),
                   LAMBDA key : key \in SharpMethods /\ key # "resize")

\* part_001 111-156: the output format of all variants.  metadataOk is
\* whether the second metadata() call (under optimizeOutputFormat) answered.
ResolveOutputFormat(o, source, metadataOk) ==
    LET initial == IF o.outputFormat # "undefined"
                   THEN ToLowerCase(o.outputFormat)
                   ELSE source.format
    IN  IF ~o.optimizeOutputFormat \/ ~metadataOk THEN initial
        ELSE IF source.hasAlpha
             THEN IF initial \notin {"webp", "png", "gif"}
                  THEN "webp" ELSE initial
             ELSE IF o.outputFormat = "undefined"
                     \/ ToLowerCase(o.outputFormat) \notin {"webp", "avif"}
                  THEN "webp" ELSE initial

\* part_001 182: `quality || 100` for the original.
OriginalQuality(o) ==
    IF o.quality.kind = "number" /\ o.quality.val[1] # 0
    THEN o.quality.val[1] ELSE 100

\* utils.js 40-41: the quality of a size variant.
ResizeQuality(o, sizeConfig) ==
    IF o.quality.kind # "undefined" THEN o.quality.val[1]
    ELSE sizeConfig.defaultQuality

\* The codec: the length of an encoded payload, a function of what was
\* encoded (any deterministic function will do).
EncodedLength(width, height, quality) ==
    (width * height * (quality + 1)) \div 1000 + 1

\* The codec: height of an image resized to `width`, aspect ratio kept.
ScaledHeight(source, width) == (source.height * width) \div source.width

\* An encoded payload is identified by what went into the encoder.
Buffer(bytes, applied, format, width, quality) ==
    [ bytes |-> bytes, applied |-> applied, format |-> format,
      width |-> width, quality |-> quality ]

Variant(sizeKey, buffer, height) ==
    [ sizeKey |-> sizeKey, buffer |-> buffer, filename |-> <<>>,
      metadata |-> [ width |-> buffer.width, height |-> height,
                     format |-> buffer.format,
                     size |-> EncodedLength(buffer.width, height,
                                            buffer.quality) ] ]

\* part_001 172-205: the re-encoded original.
OriginalVariant(bytes, o, format) ==
    LET source == Payloads[bytes]
    IN  Variant("original",
                Buffer(bytes, AppliedTransformations(o.transformations),
                       format, source.width, OriginalQuality(o)),
                source.height)

\* part_001 211-261 and utils.js 32-76: one size variant; resize(width) sets
\* the width of the profile.
ResizedVariant(bytes, o, format, sizeKey) ==
    LET source == Payloads[bytes]
        sizeConfig == SizeConfig(sizeKey)
    IN  Variant(sizeKey,
                Buffer(bytes, AppliedTransformations(o.transformations),
                       format, sizeConfig.width,
                       ResizeQuality(o, sizeConfig)),
                ScaledHeight(source, sizeConfig.width))

\* part_001 208: options.processSizes || Object.keys(sizes).
SizesToProcess(o) ==
    IF o.processSizes.kind = "array" THEN o.processSizes.val
    ELSE KeysOf(DEFAULT_SIZES)

\* part_001 195-275: allImagesToSave of a run in which nothing failed: the
\* original first, then the size variants in the order asked for.
GeneratedImages(bytes, o, format) ==
    <<OriginalVariant(bytes, o, format)>> \o
    [i \in 1..Len(SizesToProcess(o)) |->
        ResizedVariant(bytes, o, format, SizesToProcess(o)[i])]

\* The same three for an instance whose table of size profiles is `sizes`
\* (the `sizes` argument of processAndGenerateImages, index.js 349).
ResizedVariantIn(sizes, bytes, o, format, sizeKey) ==
    LET source == Payloads[bytes]
        sizeConfig == SizeConfigIn(sizes, sizeKey)
    IN  Variant(sizeKey,
                Buffer(bytes, AppliedTransformations(o.transformations),
                       format, sizeConfig.width,
                       ResizeQuality(o, sizeConfig)),
                ScaledHeight(source, sizeConfig.width))

SizesToProcessIn(sizes, o) ==
    IF o.processSizes.kind = "array" THEN o.processSizes.val
    ELSE KeysOf(sizes)

GeneratedImagesIn(sizes, bytes, o, format) ==
    <<OriginalVariant(bytes, o, format)>> \o
    [i \in 1..Len(SizesToProcessIn(sizes, o)) |->
        ResizedVariantIn(sizes, bytes, o, format, SizesToProcessIn(sizes, o)[i])]

----------------------------------------------------------------------------
(* index.js 291-338 and 357-403: file names and result metadata *)

\* path.parse(originalFilename).name for the file names of the model.
PathParseName(originalFilename) ==
    CASE originalFilename = "a.jpg" -> "a"
      [] originalFilename = "b.jpg" -> "b"
      [] OTHER -> originalFilename

\* utils.js 83-86.
getFileExtensionForFormat(format) ==
    IF format = "jpeg" THEN "jpg" ELSE format

\* A file name is kept as the sequence of the pieces the template joins;
\* <<>> is the empty string.
DefaultFilename(img, baseName, extension) ==
    IF img.sizeKey = "original"
    THEN <<baseName, ".", extension>>
    ELSE <<"resized/", img.sizeKey, "/", baseName, "-", img.sizeKey, ".",
           extension>>

\* The value a caller-supplied generator returns: genPlain a name for every
\* image, genEmpty the empty string for every image, genEmptySizes a name
\* for the original and the empty string for a size variant.
GeneratedFilename(generator, img, baseName, extension) ==
    IF \/ generator = "genPlain"
       \/ generator = "genEmptySizes" /\ img.sizeKey = "original"
    THEN <<baseName, "-", img.sizeKey, ".", extension>>
    ELSE <<>>

\* finalResults.metadata[<'original' or 'resized'>][img.sizeKey] = img.metadata.
\* finalResults.metadata.original is null and .resized an object, so the
\* assignment through .original is a property write on null: a TypeError.
AssignMetadata(metadata, img) ==
    IF img.sizeKey = "original"
    THEN IF metadata.original = None
         THEN [thrown |-> "TypeError", metadata |-> metadata]
         ELSE [thrown |-> "none", metadata |-> metadata]
    ELSE [thrown |-> "none",
          metadata |-> [metadata EXCEPT
                          !.resized = PutPair(@, img.sizeKey, img.metadata)]]

EmptyMetadata == [original |-> None, resized |-> <<>>]

\* One turn of the loop over allImagesToSave: name the image, check the name,
\* record its metadata.  `acc` is the loop's state so far.
NameOneImage(acc, i, originalFilename, generator) ==
    LET img == acc.images[i]
        baseName == PathParseName(originalFilename)
        extension == getFileExtensionForFormat(img.metadata.format)
        filename == IF generator = "undefined"
                    THEN DefaultFilename(img, baseName, extension)
                    ELSE GeneratedFilename(generator, img, baseName, extension)
        named == [acc.images EXCEPT ![i].filename = filename]
        assigned == AssignMetadata(acc.metadata, img)
    IN  IF generator = "genThrows"
        THEN [acc EXCEPT !.thrown = "Error"]
        ELSE IF filename = <<>>
        THEN [acc EXCEPT !.thrown = "ConfigurationError", !.images = named]
        ELSE [thrown |-> assigned.thrown, images |-> named,
              metadata |-> assigned.metadata]

\* The whole loop: it stops at the first throw.
NameImages(images, originalFilename, generator) ==
    LET Loop[i \in 0..Len(images)] ==
            IF i = 0
            THEN [thrown |-> "none", images |-> images,
                  metadata |-> EmptyMetadata]
            ELSE IF Loop[i - 1].thrown # "none" THEN Loop[i - 1]
                 ELSE NameOneImage(Loop[i - 1], i, originalFilename, generator)
    IN  Loop[Len(images)]

\* The catch of processImage without the branch that passes a StorageError
\* on: it is wrapped like any other error.
RethrownWrapsStorageError(thrown) ==
    IF thrown \in {"ConfigurationError", "ImageProcessingError"}
    THEN thrown
    ELSE "ImageProcessingError"

\* index.js 451-475: the catch of processImage passes the three error classes
\* of the library on and wraps anything else in an ImageProcessingError.
Rethrown(thrown) ==
    IF thrown \in {"ConfigurationError", "ImageProcessingError", "StorageError"}
    THEN thrown
    ELSE "ImageProcessingError"

----------------------------------------------------------------------------
(* cache-manager.js: CacheManager *)

\* The files of one cache entry.
PayloadsOf(payloads, cacheKey) == {f \in payloads : f.key = cacheKey}
MetaOf(meta, cacheKey) == {f \in meta : f.key = cacheKey}

\* fs.writeFile of <sizeKey>.<format> under the entry: it replaces the file.
\* A write that fails leaves the file as it was or cut short (intact = FALSE).
WritePayload(payloads, cacheKey, img, intact) ==
    {f \in payloads : ~(f.key = cacheKey /\ f.sizeKey = img.sizeKey
                        /\ f.format = img.metadata.format)}
    \cup {[key |-> cacheKey, sizeKey |-> img.sizeKey,
           format |-> img.metadata.format, buffer |-> img.buffer,
           intact |-> intact]}

\* A variant that keeps one metadata.json for the whole cache directory.
WriteMetaSharedFile(meta, cacheKey, doc, intact) ==
    {[key |-> cacheKey, doc |-> doc, intact |-> intact]}

\* fs.writeFile of metadata.json with JSON.stringify(metadataToCache).
WriteMeta(meta, cacheKey, doc, intact) ==
    {f \in meta : f.key # cacheKey}
    \cup {[key |-> cacheKey, doc |-> doc, intact |-> intact]}

\* metadataToCache without the branch for the original: its metadata is
\* never recorded.
MetadataToCacheDropsOriginal(images, n) ==
    LET Doc[i \in 0..n] ==
            IF i = 0 THEN [original |-> None, resized |-> <<>>]
            ELSE IF images[i].sizeKey = "original" THEN Doc[i - 1]
                 ELSE [Doc[i - 1] EXCEPT
                         !.resized = PutPair(@, images[i].sizeKey,
                                             images[i].metadata)]
    IN  Doc[n]

\* metadataToCache after the first n images (cache-manager.js 189-210).
MetadataToCache(images, n) ==
    LET Doc[i \in 0..n] ==
            IF i = 0 THEN [original |-> None, resized |-> <<>>]
            ELSE IF images[i].sizeKey = "original"
                 THEN [Doc[i - 1] EXCEPT !.original = Some(images[i].metadata)]
                 ELSE [Doc[i - 1] EXCEPT
                         !.resized = PutPair(@, images[i].sizeKey,
                                             images[i].metadata)]
    IN  Doc[n]

\* The payload files after the first n images were written.
PayloadsWritten(payloads, cacheKey, images, n) ==
    LET Files[i \in 0..n] ==
            IF i = 0 THEN payloads
            ELSE WritePayload(Files[i - 1], cacheKey, images[i], TRUE)
    IN  Files[n]

\* The steps of setCachedImages at which the file system may fail: 0 is no
\* failure, 1 the mkdir, 1 + i the write of payload i, Len + 2 the write of
\* metadata.json.
SetFailurePoints(images) == 0..(Len(images) + 2)

\* A variant whose mkdir is not recursive: with no directory left in the
\* cache, the cache directory itself is gone and nothing is written.
setCachedImagesNeedsDirectory(enabled, dirs, payloads, meta, cacheKey, images, failAt, cut) ==
    LET n == Len(images)
        same == [dirs |-> dirs, payloads |-> payloads, meta |-> meta,
                 thrown |-> "none", wrote |-> FALSE]
    IN  IF ~enabled THEN same
        ELSE IF dirs = {} THEN same
        ELSE IF failAt = 1 THEN same
        ELSE IF failAt \in 2..(n + 1)
        THEN LET done == PayloadsWritten(payloads, cacheKey, images, failAt - 2)
             IN  [same EXCEPT
                    !.dirs = dirs \cup {cacheKey},
                    !.payloads = IF cut
                                 THEN WritePayload(done, cacheKey,
                                                   images[failAt - 1], FALSE)
                                 ELSE done]
        ELSE LET done == PayloadsWritten(payloads, cacheKey, images, n)
                 doc == MetadataToCache(images, n)
             IN  [ dirs |-> dirs \cup {cacheKey},
                   payloads |-> done,
                   meta |-> IF failAt = 0
                            THEN WriteMeta(meta, cacheKey, doc, TRUE)
                            ELSE IF cut
                                 THEN WriteMeta(meta, cacheKey, doc, FALSE)
                                 ELSE meta,
                   thrown |-> "none",
                   wrote |-> failAt = 0 ]

\* setCachedImages(cacheKey, allImagesToSave) (cache-manager.js 177-236) as
\* a function of the cache's files: the files after the call.  `cut` is
\* whether the failing write left its file cut short.  The catch swallows
\* every failure: `thrown` is always "none".
setCachedImages(enabled, dirs, payloads, meta, cacheKey, images, failAt, cut) ==
    LET n == Len(images)
        same == [dirs |-> dirs, payloads |-> payloads, meta |-> meta,
                 thrown |-> "none", wrote |-> FALSE]
    IN  IF ~enabled THEN same
        ELSE IF failAt = 1 THEN same
        ELSE IF failAt \in 2..(n + 1)
        THEN LET done == PayloadsWritten(payloads, cacheKey, images, failAt - 2)
             IN  [same EXCEPT
                    !.dirs = dirs \cup {cacheKey},
                    !.payloads = IF cut
                                 THEN WritePayload(done, cacheKey,
                                                   images[failAt - 1], FALSE)
                                 ELSE done]
        ELSE LET done == PayloadsWritten(payloads, cacheKey, images, n)
                 doc == MetadataToCache(images, n)
             IN  [ dirs |-> dirs \cup {cacheKey},
                   payloads |-> done,
                   meta |-> IF failAt = 0
                            THEN WriteMeta(meta, cacheKey, doc, TRUE)
                            ELSE IF cut
                                 THEN WriteMeta(meta, cacheKey, doc, FALSE)
                                 ELSE meta,
                   thrown |-> "none",
                   wrote |-> failAt = 0 ]

\* The read failures the file system may inject into getCachedImages.
ReadErrors == {"none", "metadata", "payload"}

\* fs.readFile of a payload file: a file that was cut short reads as other
\* bytes than the ones encoded.
ReadBuffer(f) ==
    IF f.intact THEN f.buffer ELSE [f.buffer EXCEPT !.bytes = "truncated"]

\* The cached image for one entry of the metadata document, or None when its
\* payload file is missing.
CachedImage(payloads, cacheKey, sizeKey, metadata) ==
    LET files == {f \in PayloadsOf(payloads, cacheKey) :
                    f.sizeKey = sizeKey /\ f.format = metadata.format}
    IN  IF files = {} THEN None
        ELSE Some([sizeKey |-> sizeKey,
                   buffer |-> ReadBuffer(CHOOSE f \in files : TRUE),
                   filename |-> <<>>, metadata |-> metadata])

\* The catch of getCachedImages returning null for a missing file only, and
\* throwing anything else again.
CacheReadFailedRethrows(failure) ==
    [images |-> None,
     thrown |-> IF failure = "ENOENT" THEN "none" ELSE "Error",
     failure |-> failure]

\* What getCachedImages does with a failure inside its try block
\* (cache-manager.js 153-169): it logs and returns null, whatever failed.
CacheReadFailed(failure) ==
    [images |-> None, thrown |-> "none", failure |-> failure]

\* getCachedImages(cacheKey) (cache-manager.js 93-170): `images` is None for
\* null, `failure` names what the try block ran into.
getCachedImages(enabled, payloads, meta, cacheKey, readError) ==
    LET files == MetaOf(meta, cacheKey)
        file == CHOOSE f \in files : TRUE
        doc == file.doc
        entries == (IF IsSome(doc.original)
                    THEN << <<"original", Get(doc.original)>> >> ELSE <<>>)
                   \o doc.resized
        read == [i \in 1..Len(entries) |->
                    CachedImage(payloads, cacheKey, entries[i][1],
                                entries[i][2])]
    IN  IF ~enabled
        THEN [images |-> None, thrown |-> "none", failure |-> "disabled"]
        ELSE IF files = {} THEN CacheReadFailed("ENOENT")
        ELSE IF readError = "metadata" THEN CacheReadFailed("EIO")
        ELSE IF ~file.intact THEN CacheReadFailed("SyntaxError")
        ELSE IF \E i \in 1..Len(read) : read[i] = None
        THEN CacheReadFailed("ENOENT")
        ELSE IF readError = "payload" /\ Len(entries) > 0
        THEN CacheReadFailed("EIO")
        ELSE [images |-> Some([i \in 1..Len(read) |-> Get(read[i])]),
              thrown |-> "none", failure |-> "none"]

\* clearCache with a catch that only logs, like the one of setCachedImages.
clearCacheSwallows(dirs, payloads, meta, failed, left) ==
    IF ~failed
    THEN [dirs |-> {}, payloads |-> {}, meta |-> {}, thrown |-> "none"]
    ELSE [dirs |-> dirs \cap left,
          payloads |-> {f \in payloads : f.key \in left},
          meta |-> {f \in meta : f.key \in left},
          thrown |-> "none"]

\* clearCache() (cache-manager.js 241-261): fs.rm of the whole cache
\* directory.  When the removal fails, the entries in `left` are still there
\* and the failure is thrown as a StorageError.
clearCache(dirs, payloads, meta, failed, left) ==
    IF ~failed
    THEN [dirs |-> {}, payloads |-> {}, meta |-> {}, thrown |-> "none"]
    ELSE [dirs |-> dirs \cap left,
          payloads |-> {f \in payloads : f.key \in left},
          meta |-> {f \in meta : f.key \in left},
          thrown |-> "StorageError"]

----------------------------------------------------------------------------
(* local-storage.js and part_003 (s3-storage.js) *)

\* fs.writeFile / s3.upload of one image: the stored object under its name.
Persist(files, img) ==
    {f \in files : f.name # img.filename}
    \cup {[name |-> img.filename, buffer |-> img.buffer]}

\* The store after the first n images were persisted.
Persisted(files, images, n) ==
    LET Files[i \in 0..n] ==
            IF i = 0 THEN files ELSE Persist(Files[i - 1], images[i])
    IN  Files[n]

\* The `results` object after the first n images were persisted: the
\* location of each, keyed like the images.
Locations(images, n) ==
    LET Res[i \in 0..n] ==
            IF i = 0 THEN [original |-> None, resized |-> <<>>]
            ELSE IF images[i].sizeKey = "original"
                 THEN [Res[i - 1] EXCEPT !.original = Some(images[i].filename)]
                 ELSE [Res[i - 1] EXCEPT
                         !.resized = PutPair(@, images[i].sizeKey,
                                             images[i].filename)]
    IN  Res[n]

\* A variant that removes what it has persisted when a persist fails.
saveImagesRollsBack(files, images, failAt) ==
    IF failAt = 0
    THEN [files |-> Persisted(files, images, Len(images)),
          thrown |-> "none",
          results |-> Some(Locations(images, Len(images)))]
    ELSE [files |-> files,
          thrown |-> "StorageError",
          results |-> None]

\* saveImageLocally / uploadImageToS3 (local-storage.js 46-70, part_003
\* 63-112): the images are persisted one after the other; failAt = 0 is no
\* failure, failAt = k the failure of the k-th persist, which is thrown as a
\* StorageError and ends the loop.
saveImages(files, images, failAt) ==
    IF failAt = 0
    THEN [files |-> Persisted(files, images, Len(images)),
          thrown |-> "none",
          results |-> Some(Locations(images, Len(images)))]
    ELSE [files |-> Persisted(files, images, failAt - 1),
          thrown |-> "StorageError",
          results |-> None]

----------------------------------------------------------------------------
(* part_001 34-276: processAndGenerateImages as a whole *)

\* Where the codec may fail during one run: nowhere, in sharp(buffer) or the
\* first metadata(), in a transformation, in the metadata() read for
\* optimizeOutputFormat, in the encode of the original, or in size unit k.
PipelineFaults(o) ==
    [at : {"none", "init", "transform", "metadata", "original"}, unit : {0}]
    \cup [at : {"unit"}, unit : 1..Len(SizesToProcess(o))]

\* A variant of the run that encodes the original before it looks at the
\* resolved output format.
processAndGenerateImagesEncodesFirst(bytes, o, fault) ==
    LET source == Payloads[bytes]
        format == ResolveOutputFormat(o, source, fault.at # "metadata")
        failed(thrown, encodes) ==
            [thrown |-> thrown, images |-> <<>>, encodes |-> encodes]
        units == Len(SizesToProcess(o))
    IN  IF fault.at = "init" THEN failed("ImageProcessingError", 0)
        ELSE IF fault.at = "transform"
                /\ AppliedTransformations(o.transformations) # <<>>
        THEN failed("ImageProcessingError", 0)
        ELSE IF fault.at = "original" THEN failed("ImageProcessingError", 1)
        ELSE IF format \notin SUPPORTED_OUTPUT_FORMATS
        THEN failed("ConfigurationError", 1)
        ELSE IF fault.at = "unit"
        THEN failed("ImageProcessingError", 1 + units)
        ELSE [thrown |-> "none",
              images |-> GeneratedImages(bytes, o, format),
              encodes |-> 1 + units]

\* The run: what it throws, the images it returns and the number of encodes
\* (toBuffer calls) it started.
processAndGenerateImages(bytes, o, fault) ==
    LET source == Payloads[bytes]
        format == ResolveOutputFormat(o, source, fault.at # "metadata")
        failed(thrown, encodes) ==
            [thrown |-> thrown, images |-> <<>>, encodes |-> encodes]
        units == Len(SizesToProcess(o))
    IN  IF fault.at = "init" THEN failed("ImageProcessingError", 0)
        ELSE IF fault.at = "transform"
                /\ AppliedTransformations(o.transformations) # <<>>
        THEN failed("ImageProcessingError", 0)
        ELSE IF format \notin SUPPORTED_OUTPUT_FORMATS
        THEN failed("ConfigurationError", 0)
        ELSE IF fault.at = "original" THEN failed("ImageProcessingError", 1)
        ELSE IF fault.at = "unit"
        THEN failed("ImageProcessingError", 1 + units)
        ELSE [thrown |-> "none",
              images |-> GeneratedImages(bytes, o, format),
              encodes |-> 1 + units]

----------------------------------------------------------------------------
(* index.js 146-476: processImage *)

\* The checks on the arguments without the one on options.quality.
ValidateArgumentsSkipsQuality(source, originalFilename, o) ==
    IF source.kind \notin {"buffer", "stream"}
    THEN "ImageProcessingError"
    ELSE IF originalFilename = "" THEN "ImageProcessingError"
    ELSE IF o.processSizes.kind # "undefined"
            /\ o.processSizes.kind # "array"
    THEN "TypeError"
    ELSE IF o.processSizes.kind = "array"
            /\ \E i \in 1..Len(o.processSizes.val) :
                  o.processSizes.val[i] \notin SizeKeys
    THEN "ConfigurationError"
    ELSE IF o.filenameGenerator = "notAFunction" THEN "ConfigurationError"
    ELSE IF o.transformations.kind \notin {"undefined", "object"}
    THEN "ConfigurationError"
    ELSE "none"

\* index.js 162-220: the checks on the arguments, in order.  An error thrown
\* here is outside the try block of processImage, so it leaves as it is.
\* processSizes.filter on a value that is no array is a TypeError.
ValidateArguments(source, originalFilename, o) ==
    IF source.kind \notin {"buffer", "stream"}
    THEN "ImageProcessingError"
    ELSE IF originalFilename = "" THEN "ImageProcessingError"
    ELSE IF o.quality.kind # "undefined"
            /\ (o.quality.kind # "number" \/ o.quality.val[1] < 0
                \/ o.quality.val[1] > 100)
    THEN "ConfigurationError"
    ELSE IF o.processSizes.kind # "undefined"
            /\ o.processSizes.kind # "array"
    THEN "TypeError"
    ELSE IF o.processSizes.kind = "array"
            /\ \E i \in 1..Len(o.processSizes.val) :
                  o.processSizes.val[i] \notin SizeKeys
    THEN "ConfigurationError"
    ELSE IF o.filenameGenerator = "notAFunction" THEN "ConfigurationError"
    ELSE IF o.transformations.kind \notin {"undefined", "object"}
    THEN "ConfigurationError"
    ELSE "none"

\* The read of the source without the check of the detected media type.
ReadSourceSkipsFileType(source, streamFails) ==
    IF source.kind = "stream" /\ streamFails THEN "Error" ELSE "none"

\* index.js 225-257: reading the source and detecting its media type.
ReadSource(source, streamFails) ==
    IF source.kind = "stream" /\ streamFails THEN "Error"
    ELSE IF Payloads[source.bytes].mime \notin SUPPORTED_IMAGE_MIME_TYPES
    THEN "ImageProcessingError"
    ELSE "none"

EmptyResults ==
    [metadata |-> EmptyMetadata, local |-> None, s3 |-> None]

\* A request that was not issued yet.
IdleRequest ==
    [ pc |-> "idle",
      source |-> [kind |-> "buffer", bytes |-> "imgA"],
      originalFilename |-> "", options |-> NoOptions,
      read |-> FALSE,
      cacheKey |-> None, path |-> "none", images |-> <<>>,
      results |-> EmptyResults, outcome |-> "pending", cause |-> "none",
      readFailure |-> "none", pipelineCalls |-> 0, encodes |-> 0,
      setCalls |-> 0, setWrote |-> FALSE,
      localCalls |-> 0, s3Calls |-> 0, localThrew |-> FALSE,
      s3Threw |-> FALSE ]

\* A variant in which the catch never settles the promise.
RejectNeverSettles(r, rec, thrown) ==
    [rec EXCEPT !.pc = "rejecting", !.cause = thrown]

\* processImage rejects: `thrown` is what reached the catch of index.js 451.
Reject(r, rec, thrown) ==
    [rec EXCEPT !.pc = "done", !.outcome = Rethrown(thrown), !.cause = thrown]

\* A variant that goes to the S3 step whatever is enabled.
FirstStoreAlwaysS3 == "s3"

\* The first storage step of the instance (index.js 410, 428).
FirstStore == IF config.enableLocal THEN "local" ELSE "s3"

\* A call of processImage up to the cache lookup: the arguments are checked,
\* the source is read and the cache key computed (index.js 146-272).
Begun(args, streamFails) ==
    LET invalid == ValidateArguments(args.source, args.originalFilename,
                                     args.options)
        unread == ReadSource(args.source, streamFails)
        rec == [IdleRequest EXCEPT !.source = args.source,
                                   !.originalFilename = args.originalFilename,
                                   !.options = args.options]
        begun ==
            IF invalid # "none"
            THEN [rec EXCEPT !.pc = "done", !.outcome = invalid,
                             !.cause = invalid]
            ELSE IF unread # "none"
            THEN Reject("current", [rec EXCEPT !.read = TRUE], unread)
            ELSE [rec EXCEPT
                    !.read = TRUE,
                    !.pc = "lookup",
                    !.cacheKey = Some(generateCacheKey(args.source.bytes,
                                          args.originalFilename,
                                          args.options))]
    IN  begun

\* A call of processImage when no other is in flight.  The call before it,
\* which has returned, is kept as the previous request.
Begin(args, streamFails) ==
    LET begun == Begun(args, streamFails)
    IN  /\ req.current.pc \in {"idle", "done"}
        /\ req' = [current |-> begun,
                   previous |-> IF req.current.pc = "done"
                                THEN req.current ELSE req.previous]
        /\ issued' = issued + 1
        /\ UNCHANGED <<config, cacheDirs, cachePayloads, cacheMeta,
                       localFiles, s3Objects, api>>

\* A variant that goes on to `next` with the images as they came, without
\* the loop that names them.
NamedSkipsNames(r, rec, images, next) ==
    [rec EXCEPT !.images = images, !.pc = next]

\* The images are named and their metadata recorded; then the request goes
\* on to `next` (index.js 291-338, 357-403).
Named(r, rec, images, next) ==
    LET named == NameImages(images, rec.originalFilename,
                            rec.options.filenameGenerator)
        with == [rec EXCEPT !.images = named.images,
                            !.results.metadata = named.metadata]
    IN  IF named.thrown # "none" THEN Reject(r, with, named.thrown)
        ELSE [with EXCEPT !.pc = next]

\* A variant of the lookup that removes the entry of the key when reading it
\* has failed.
LookupEvictsOnFailure(r, readError) ==
    LET got == getCachedImages(config.cacheEnabled, cachePayloads, cacheMeta,
                               Get(req[r].cacheKey), readError)
        rec == [req[r] EXCEPT !.readFailure = got.failure]
        evict == got.failure \in {"EIO", "SyntaxError"}
    IN  /\ req[r].pc = "lookup"
        /\ req' = [req EXCEPT ![r] =
              IF got.thrown # "none" THEN Reject(r, rec, got.thrown)
              ELSE IF IsSome(got.images)
              THEN Named(r, [rec EXCEPT !.path = "hit"], Get(got.images),
                         FirstStore)
              ELSE [rec EXCEPT !.path = "miss", !.pc = "process"]]
        /\ cacheMeta' = IF evict
                        THEN {f \in cacheMeta : f.key # Get(req[r].cacheKey)}
                        ELSE cacheMeta
        /\ UNCHANGED <<config, issued, cacheDirs, cachePayloads,
                       localFiles, s3Objects, api>>

\* await this.cacheManager.getCachedImages(cacheKey), and on a hit the file
\* names (index.js 285-338).
Lookup(r, readError) ==
    LET got == getCachedImages(config.cacheEnabled, cachePayloads, cacheMeta,
                               Get(req[r].cacheKey), readError)
        rec == [req[r] EXCEPT !.readFailure = got.failure]
    IN  /\ req[r].pc = "lookup"
        /\ req' = [req EXCEPT ![r] =
              IF got.thrown # "none" THEN Reject(r, rec, got.thrown)
              ELSE IF IsSome(got.images)
              THEN Named(r, [rec EXCEPT !.path = "hit"], Get(got.images),
                         FirstStore)
              ELSE [rec EXCEPT !.path = "miss", !.pc = "process"]]
        /\ UNCHANGED <<config, issued, cacheDirs, cachePayloads, cacheMeta,
                       localFiles, s3Objects, api>>

\* await processAndGenerateImages(...), then the file names (index.js
\* 343-403).
Process(r, fault) ==
    LET ran == processAndGenerateImages(req[r].source.bytes, req[r].options,
                                        fault)
        rec == [req[r] EXCEPT !.pipelineCalls = @ + 1,
                              !.encodes = @ + ran.encodes]
    IN  /\ req[r].pc = "process"
        /\ req' = [req EXCEPT ![r] =
              IF ran.thrown # "none" THEN Reject(r, rec, ran.thrown)
              ELSE Named(r, rec, ran.images, "cacheSet")]
        /\ UNCHANGED <<config, issued, cacheDirs, cachePayloads, cacheMeta,
                       localFiles, s3Objects, api>>

\* await this.cacheManager.setCachedImages(cacheKey, allImagesToSave)
\* (index.js 405).
CacheSet(r, failAt, cut) ==
    LET set == setCachedImages(config.cacheEnabled, cacheDirs, cachePayloads,
                               cacheMeta, Get(req[r].cacheKey), req[r].images,
                               failAt, cut)
        rec == [req[r] EXCEPT !.setCalls = @ + 1, !.setWrote = set.wrote]
    IN  /\ req[r].pc = "cacheSet"
        /\ cacheDirs' = set.dirs
        /\ cachePayloads' = set.payloads
        /\ cacheMeta' = set.meta
        /\ req' = [req EXCEPT ![r] =
              IF set.thrown # "none" THEN Reject(r, rec, set.thrown)
              ELSE [rec EXCEPT !.pc = FirstStore]]
        /\ UNCHANGED <<config, issued, localFiles, s3Objects, api>>

\* StoreLocal with the failure of the local backend kept in the result
\* instead of thrown: the request goes on to S3.
StoreLocalContinues(r, failAt) ==
    LET saved == saveImages(localFiles, req[r].images, failAt)
        rec == [req[r] EXCEPT !.localCalls = @ + 1,
                              !.localThrew = saved.thrown # "none",
                              !.results.local = saved.results]
    IN  /\ req[r].pc = "local"
        /\ localFiles' = saved.files
        /\ req' = [req EXCEPT ![r] =
              IF config.enableS3 THEN [rec EXCEPT !.pc = "s3"]
              ELSE IF saved.thrown # "none"
              THEN Reject(r, rec, saved.thrown)
              ELSE [rec EXCEPT !.pc = "done", !.outcome = "resolved"]]
        /\ UNCHANGED <<config, issued, cacheDirs, cachePayloads, cacheMeta,
                       s3Objects, api>>

\* index.js 410-426: the local backend; a StorageError is thrown again.
StoreLocal(r, failAt) ==
    LET saved == saveImages(localFiles, req[r].images, failAt)
        rec == [req[r] EXCEPT !.localCalls = @ + 1,
                              !.localThrew = saved.thrown # "none",
                              !.results.local = saved.results]
    IN  /\ req[r].pc = "local"
        /\ localFiles' = saved.files
        /\ req' = [req EXCEPT ![r] =
              IF saved.thrown # "none" THEN Reject(r, rec, saved.thrown)
              ELSE IF config.enableS3 THEN [rec EXCEPT !.pc = "s3"]
              ELSE [rec EXCEPT !.pc = "done", !.outcome = "resolved"]]
        /\ UNCHANGED <<config, issued, cacheDirs, cachePayloads, cacheMeta,
                       s3Objects, api>>

\* StoreS3 with the failure of the S3 backend swallowed: finalResults is
\* returned without the S3 locations.
StoreS3Swallows(r, failAt) ==
    LET saved == saveImages(s3Objects, req[r].images, failAt)
        rec == [req[r] EXCEPT !.s3Calls = @ + 1,
                              !.s3Threw = saved.thrown # "none",
                              !.results.s3 = saved.results]
    IN  /\ req[r].pc = "s3"
        /\ s3Objects' = saved.files
        /\ req' = [req EXCEPT ![r] =
                      [rec EXCEPT !.pc = "done", !.outcome = "resolved"]]
        /\ UNCHANGED <<config, issued, cacheDirs, cachePayloads, cacheMeta,
                       localFiles, api>>

\* index.js 428-450: the S3 backend, then the return of finalResults.
StoreS3(r, failAt) ==
    LET saved == saveImages(s3Objects, req[r].images, failAt)
        rec == [req[r] EXCEPT !.s3Calls = @ + 1,
                              !.s3Threw = saved.thrown # "none",
                              !.results.s3 = saved.results]
    IN  /\ req[r].pc = "s3"
        /\ s3Objects' = saved.files
        /\ req' = [req EXCEPT ![r] =
              IF saved.thrown # "none" THEN Reject(r, rec, saved.thrown)
              ELSE [rec EXCEPT !.pc = "done", !.outcome = "resolved"]]
        /\ UNCHANGED <<config, issued, cacheDirs, cachePayloads, cacheMeta,
                       localFiles, api>>

----------------------------------------------------------------------------
(* Direct calls of the CacheManager by the host application *)

NoCall ==
    [ calls |-> 0, op |-> "none", key |-> None, images |-> <<>>,
      result |-> None, thrown |-> "none", wrote |-> FALSE,
      failure |-> "none" ]

DirectSet(cacheKey, images, failAt, cut) ==
    LET set == setCachedImages(config.cacheEnabled, cacheDirs, cachePayloads,
                               cacheMeta, cacheKey, images, failAt, cut)
    IN  /\ cacheDirs' = set.dirs
        /\ cachePayloads' = set.payloads
        /\ cacheMeta' = set.meta
        /\ api' = [ calls |-> api.calls + 1, op |-> "set",
                    key |-> Some(cacheKey), images |-> images,
                    result |-> None, thrown |-> set.thrown,
                    wrote |-> set.wrote, failure |-> "none" ]
        /\ UNCHANGED <<config, req, issued, localFiles, s3Objects>>

DirectGet(cacheKey, readError) ==
    LET got == getCachedImages(config.cacheEnabled, cachePayloads, cacheMeta,
                               cacheKey, readError)
    IN  /\ api' = [ calls |-> api.calls + 1, op |-> "get",
                    key |-> Some(cacheKey),
                    images |-> IF api.op = "set" /\ api.key = Some(cacheKey)
                                  /\ api.wrote
                               THEN api.images ELSE <<>>,
                    result |-> got.images, thrown |-> got.thrown,
                    wrote |-> api.op = "set" /\ api.key = Some(cacheKey)
                              /\ api.wrote,
                    failure |-> got.failure ]
        /\ UNCHANGED <<config, req, issued, cacheDirs, cachePayloads, cacheMeta,
                       localFiles, s3Objects>>

DirectClear(failed, left) ==
    LET cleared == clearCache(cacheDirs, cachePayloads, cacheMeta, failed, left)
    IN  /\ cacheDirs' = cleared.dirs
        /\ cachePayloads' = cleared.payloads
        /\ cacheMeta' = cleared.meta
        /\ api' = [ calls |-> api.calls + 1, op |-> "clear", key |-> None,
                    images |-> <<>>, result |-> None,
                    thrown |-> cleared.thrown, wrote |-> FALSE,
                    failure |-> "none" ]
        /\ UNCHANGED <<config, req, issued, localFiles, s3Objects>>

----------------------------------------------------------------------------
(* The calls of the model *)

BufferOf(bytes) == [kind |-> "buffer", bytes |-> bytes]

\* A valid request: one size, no other option.
SmallOnly == [NoOptions EXCEPT !.processSizes = Arr(<<"small">>)]

BaseArgs ==
    [source |-> BufferOf("imgA"), originalFilename |-> "a.jpg",
     options |-> SmallOnly]

\* A transformations object with two members, and the same object with its
\* members inserted the other way round.
RotateThenFlip == << <<"rotate", "90">>, <<"flip", "true">> >>
FlipThenRotate == << <<"flip", "true">>, <<"rotate", "90">> >>

\* A transformations object that names a codec method outside the documented
\* examples, the reserved method and a key that is no method of the codec.
BlurResizeSepia == << <<"blur", "5">>, <<"resize", "10">>, <<"sepia", "1">> >>

\* The arguments of the processImage calls: the base call, and the base call
\* with one argument changed.
RequestArgs ==
    { BaseArgs,
      [BaseArgs EXCEPT !.originalFilename = "b.jpg"],
      [BaseArgs EXCEPT !.source = BufferOf("txt")],
      [BaseArgs EXCEPT !.source = [kind |-> "stream", bytes |-> "imgA"]],
      [BaseArgs EXCEPT !.options.quality = Num(150)],
      [BaseArgs EXCEPT !.options.outputFormat = "bmp"],
      [BaseArgs EXCEPT !.options.processSizes = Other],
      [BaseArgs EXCEPT !.options.filenameGenerator = "genEmpty"],
      [BaseArgs EXCEPT !.options.filenameGenerator = "genEmptySizes"],
      [BaseArgs EXCEPT !.source = [kind |-> "stream", bytes |-> "imgA"],
                       !.options.quality = Other],
      [BaseArgs EXCEPT !.options.transformations = Obj(RotateThenFlip)],
      [BaseArgs EXCEPT !.options.transformations = Obj(FlipThenRotate)] }

\* The cache key under which the host application stores variants between
\* requests: that of the base call.
HostKeys == { generateCacheKey("imgA", "a.jpg", SmallOnly) }

\* The cache keys of the direct CacheManager calls: those of the base call
\* under its two file names.
ApiKeys == HostKeys \cup { generateCacheKey("imgA", "b.jpg", SmallOnly) }

\* The variant sets the host application stores between requests: what the
\* pipeline produces for the base call, and its size variant alone.
HostImages ==
    { GeneratedImages("imgA", SmallOnly, "jpeg"),
      <<ResizedVariant("imgA", SmallOnly, "jpeg", "small")>> }

\* One variant for each size key.
IsVariantSet(images) ==
    \A i, j \in 1..Len(images) :
        images[i].sizeKey = images[j].sizeKey => i = j

\* The variant sets of the specification of the cache alone: also two
\* variants of different formats, two variants under one size key, and none.
CacheImages ==
    HostImages \cup
    { <<ResizedVariant("imgA", SmallOnly, "jpeg", "small"),
        ResizedVariant("imgA", SmallOnly, "webp", "medium")>>,
      <<ResizedVariant("imgA", SmallOnly, "jpeg", "small"),
        ResizedVariant("imgB", SmallOnly, "jpeg", "small")>>,
      <<>> }

\* The instances of the model: the constructor has accepted the environment,
\* so at least one backend is enabled (index.js 67-72).
Configs ==
    { c \in [enableLocal : BOOLEAN, enableS3 : BOOLEAN,
             cacheEnabled : BOOLEAN] : c.enableLocal \/ c.enableS3 }

----------------------------------------------------------------------------
(* Spec: requests one after the other, direct setCachedImages calls of the *)
(* host between them.                                                      *)

Init ==
    /\ config \in Configs
    /\ req = [r \in Reqs |-> IdleRequest]
    /\ issued = 0
    /\ cacheDirs = {}
    /\ cachePayloads = {}
    /\ cacheMeta = {}
    /\ localFiles = {}
    /\ s3Objects = {}
    /\ api = NoCall

\* No request is between its call and its return.
Quiet == \A q \in Reqs : req[q].pc \in {"idle", "done"}

IssueRequest ==
    \E args \in RequestArgs :
        \E streamFails \in IF args.source.kind = "stream" THEN BOOLEAN
                            ELSE {FALSE} :
            /\ issued < MaxRequests
            /\ Begin(args, streamFails)

LookupStep == \E r \in Reqs, readError \in ReadErrors : Lookup(r, readError)

ProcessStep ==
    \E r \in Reqs : \E fault \in PipelineFaults(req[r].options) :
        Process(r, fault)

CacheSetStep ==
    \E r \in Reqs : \E failAt \in SetFailurePoints(req[r].images) :
        \E cut \in IF failAt > 1 THEN BOOLEAN ELSE {FALSE} :
            CacheSet(r, failAt, cut)

StoreLocalStep ==
    \E r \in Reqs : \E failAt \in 0..Len(req[r].images) : StoreLocal(r, failAt)

StoreS3Step ==
    \E r \in Reqs : \E failAt \in 0..Len(req[r].images) : StoreS3(r, failAt)

HostSet ==
    \E cacheKey \in HostKeys, images \in HostImages :
        \E failAt \in SetFailurePoints(images) :
            \E cut \in IF failAt > 1 THEN BOOLEAN ELSE {FALSE} :
                /\ Quiet
                /\ issued < MaxRequests
                /\ api.calls < MaxHostCalls
                /\ DirectSet(cacheKey, images, failAt, cut)

\* CacheSetStep is no disjunct: no request ever gets to the setCachedImages
\* call of index.js 405.  NeverReachesCacheSet is an invariant of SpecFull,
\* whose next-state relation has the step.
Next ==
    \/ IssueRequest
    \/ LookupStep
    \/ ProcessStep
    \/ StoreLocalStep
    \/ StoreS3Step
    \/ HostSet

Spec == Init /\ [][Next]_vars

NextFull == Next \/ CacheSetStep

SpecFull == Init /\ [][NextFull]_vars

\* The miss path of processImage never gets past the loop that names the
\* images: the original is the first image, and recording its metadata
\* throws.
NeverReachesCacheSet == \A r \in Reqs : req[r].pc # "cacheSet"

----------------------------------------------------------------------------
(* SpecCache: the CacheManager alone, called directly. *)

CacheCallSet ==
    \E cacheKey \in ApiKeys, images \in CacheImages :
        \E failAt \in SetFailurePoints(images) :
            \E cut \in IF failAt > 1 THEN BOOLEAN ELSE {FALSE} :
                /\ api.calls < MaxCacheCalls
                /\ DirectSet(cacheKey, images, failAt, cut)

CacheCallGet ==
    \E cacheKey \in ApiKeys, readError \in ReadErrors :
        /\ api.calls < MaxCacheCalls
        /\ DirectGet(cacheKey, readError)

CacheCallClear ==
    \E failed \in BOOLEAN :
        \E left \in IF failed THEN SUBSET cacheDirs ELSE {{}} :
            /\ api.calls < MaxCacheCalls
            /\ DirectClear(failed, left)

NextCache ==
    \/ CacheCallSet
    \/ CacheCallGet
    \/ CacheCallClear

SpecCache == Init /\ [][NextCache]_vars

----------------------------------------------------------------------------
(* SpecPipeline: processAndGenerateImages alone, called directly. *)

\* The images handed to the pipeline.
PipelineSources == {"imgA", "imgB", "imgG"}

\* The options handed to the pipeline: every combination of a format, a
\* quality, the optimize flag, the sizes and a transformation.
PipelineOptions ==
    [ outputFormat : {"undefined", "jpeg", "PNG", "avif"},
      quality : {Undefined, Num(0), Num(50)},
      optimizeOutputFormat : BOOLEAN,
      processSizes : {Undefined, Arr(<<"small">>), Arr(<<"large", "small">>),
                      Arr(<<"small", "small">>)},
      transformations : {Undefined, Obj(RotateThenFlip),
                         Obj(BlurResizeSepia)},
      filenameGenerator : {"undefined"} ]

\* processAndGenerateImages(originalBuffer, originalFilename, sizes, options)
\* with the default sizes; the call and what it gave are kept in `api`.
DirectPipeline(bytes, o, fault) ==
    LET ran == processAndGenerateImages(bytes, o, fault)
    IN  /\ api' = [ calls |-> 0, op |-> "pipeline", bytes |-> bytes,
                    options |-> o, fault |-> fault.at,
                    thrown |-> ran.thrown, images |-> ran.images,
                    encodes |-> ran.encodes ]
        /\ UNCHANGED <<config, req, issued, cacheDirs, cachePayloads,
                       cacheMeta, localFiles, s3Objects>>

\* The pipeline keeps nothing between calls, so a behaviour makes one call.
PipelineCall ==
    \E bytes \in PipelineSources, o \in PipelineOptions :
        \E fault \in PipelineFaults(o) :
            /\ api.op = "none"
            /\ DirectPipeline(bytes, o, fault)

NextPipeline == PipelineCall

SpecPipeline == Init /\ [][NextPipeline]_vars

----------------------------------------------------------------------------
(* SpecClear: a cache that is filled, cleared, filled again and read. *)

\* setCachedImages on the cache as it is after construction.
FillCall ==
    /\ api.op = "none"
    /\ \E cacheKey \in ApiKeys, images \in CacheImages :
          \E failAt \in SetFailurePoints(images) :
              \E cut \in IF failAt > 1 THEN BOOLEAN ELSE {FALSE} :
                  DirectSet(cacheKey, images, failAt, cut)

\* clearCache, once.
ClearCall ==
    /\ api.op = "none" \/ (api.op = "set" /\ api.calls = 1)
    /\ \E failed \in BOOLEAN :
          \E left \in IF failed THEN SUBSET cacheDirs ELSE {{}} :
              DirectClear(failed, left)

\* setCachedImages after a clearCache that returned without error.
RefillCall ==
    /\ api.op = "clear"
    /\ api.thrown = "none"
    /\ \E cacheKey \in ApiKeys, images \in CacheImages :
          \E failAt \in SetFailurePoints(images) :
              \E cut \in IF failAt > 1 THEN BOOLEAN ELSE {FALSE} :
                  DirectSet(cacheKey, images, failAt, cut)

\* getCachedImages after that clearCache, or after the setCachedImages that
\* followed it.
ReadCall ==
    /\ \/ api.op = "clear" /\ api.thrown = "none"
       \/ api.op = "set" /\ api.calls > 1
    /\ \E cacheKey \in ApiKeys, readError \in ReadErrors :
          DirectGet(cacheKey, readError)

NextClear == FillCall \/ ClearCall \/ RefillCall \/ ReadCall

SpecClear == Init /\ [][NextClear]_vars

----------------------------------------------------------------------------
(* SpecOverwrite: setCachedImages, getCachedImages and clearCache on one  *)
(* key.  A call that stops at one of its writes leaves the files as a     *)
(* call in flight has them at that point.                                 *)

\* The variant sets written: those with one variant for each size key.
VariantSets == {images \in CacheImages : IsVariantSet(images)}

OverwriteSet ==
    /\ api.calls < MaxCacheCalls
    /\ \E cacheKey \in HostKeys, images \in VariantSets :
          \E failAt \in SetFailurePoints(images) :
              \E cut \in IF failAt > 1 THEN BOOLEAN ELSE {FALSE} :
                  DirectSet(cacheKey, images, failAt, cut)

OverwriteGet ==
    /\ api.calls < MaxCacheCalls
    /\ \E cacheKey \in HostKeys, readError \in ReadErrors :
          DirectGet(cacheKey, readError)

OverwriteClear ==
    /\ api.calls < MaxCacheCalls
    /\ \E failed \in BOOLEAN :
          \E left \in IF failed THEN SUBSET cacheDirs ELSE {{}} :
              DirectClear(failed, left)

NextOverwrite == OverwriteSet \/ OverwriteGet \/ OverwriteClear

SpecOverwrite == Init /\ [][NextOverwrite]_vars

----------------------------------------------------------------------------
(* SpecShared: two instances with their own customSizes over one cache    *)
(* directory.  The first stores what its pipeline makes of a request, as  *)
(* index.js 405 does; the second looks the same request up, as index.js   *)
(* 285 does.                                                              *)

\* The tables of size profiles of the instances: the defaults, with one
\* profile replaced or added by customSizes.
InstanceSizes ==
    { PutPair(DEFAULT_SIZES, key, [width |-> width, defaultQuality |-> quality]) :
        key \in {"small", "xl"}, width \in {320, 100}, quality \in {80, 60} }

\* The options of the request: sizes every instance has, with and without
\* a quality of the caller.
SharedOptions ==
    { [NoOptions EXCEPT !.processSizes = sizes, !.quality = quality] :
        sizes \in {Undefined, Arr(<<"small">>), Arr(<<"medium">>)},
        quality \in {Undefined, Num(50)} }

FirstStores ==
    /\ api.op = "none"
    /\ config.cacheEnabled
    /\ \E first \in InstanceSizes, second \in InstanceSizes,
          o \in SharedOptions :
          LET cacheKey == generateCacheKey("imgA", "a.jpg", o)
              images == GeneratedImagesIn(first, "imgA", o, "jpeg")
              set == setCachedImages(TRUE, cacheDirs, cachePayloads,
                                     cacheMeta, cacheKey, images, 0, FALSE)
          IN  /\ cacheDirs' = set.dirs
              /\ cachePayloads' = set.payloads
              /\ cacheMeta' = set.meta
              /\ api' = [ calls |-> 0, op |-> "stored", first |-> first,
                          second |-> second, options |-> o,
                          key |-> cacheKey, result |-> None ]
    /\ UNCHANGED <<config, req, issued, localFiles, s3Objects>>

SecondLooksUp ==
    /\ api.op = "stored"
    /\ LET cacheKey == generateCacheKey("imgA", "a.jpg", api.options)
           got == getCachedImages(TRUE, cachePayloads, cacheMeta, cacheKey,
                                  "none")
       IN  api' = [api EXCEPT !.op = "looked", !.key = cacheKey,
                              !.result = got.images]
    /\ UNCHANGED <<config, req, issued, cacheDirs, cachePayloads, cacheMeta,
                   localFiles, s3Objects>>

NextShared == FirstStores \/ SecondLooksUp

SpecShared == Init /\ [][NextShared]_vars

----------------------------------------------------------------------------
(* SpecStore: saveImageLocally and uploadImageToS3 called with the named  *)
(* images of a request, as index.js 413 and 431 call them.                *)

LargeAndSmall == [NoOptions EXCEPT !.processSizes = Arr(<<"large", "small">>)]

\* `images` with the default file names under `baseName` (index.js 357-390).
DefaultNamed(images, baseName) ==
    [i \in 1..Len(images) |->
        [images[i] EXCEPT !.filename =
            DefaultFilename(images[i], baseName,
                getFileExtensionForFormat(images[i].metadata.format))]]

\* The named variant sets handed to a backend: the original with two sizes,
\* the original with one, and one size alone, under two base names.
StoreSets ==
    { DefaultNamed(images, baseName) :
        images \in { GeneratedImages("imgA", LargeAndSmall, "jpeg"),
                     GeneratedImages("imgA", SmallOnly, "jpeg"),
                     <<ResizedVariant("imgA", SmallOnly, "jpeg", "small")>> },
        baseName \in {"a", "b"} }

StoreCall(backend, files, images, failAt) ==
    LET saved == saveImages(files, images, failAt)
    IN  [ calls |-> api.calls + 1, op |-> backend, images |-> images,
          failAt |-> failAt, before |-> files, after |-> saved.files,
          thrown |-> saved.thrown, results |-> saved.results ]

SaveLocally ==
    /\ api.calls < MaxStoreCalls
    /\ \E images \in StoreSets :
          \E failAt \in 0..Len(images) :
              /\ api' = StoreCall("local", localFiles, images, failAt)
              /\ localFiles' = api'.after
    /\ UNCHANGED <<config, req, issued, cacheDirs, cachePayloads, cacheMeta,
                   s3Objects>>

UploadToS3 ==
    /\ api.calls < MaxStoreCalls
    /\ \E images \in StoreSets :
          \E failAt \in 0..Len(images) :
              /\ api' = StoreCall("s3", s3Objects, images, failAt)
              /\ s3Objects' = api'.after
    /\ UNCHANGED <<config, req, issued, cacheDirs, cachePayloads, cacheMeta,
                   localFiles>>

NextStore == SaveLocally \/ UploadToS3

SpecStore == Init /\ [][NextStore]_vars

----------------------------------------------------------------------------
(* SpecOne: one call of processImage, with direct setCachedImages calls of *)
(* the host before and after it.  Every await of the call returns in the   *)
(* end: each step of the call is taken when it stays possible.             *)

IssueOnce ==
    \E args \in RequestArgs :
        \E streamFails \in IF args.source.kind = "stream" THEN BOOLEAN
                            ELSE {FALSE} :
            /\ issued = 0
            /\ Begin(args, streamFails)

NextOne ==
    \/ IssueOnce
    \/ LookupStep
    \/ ProcessStep
    \/ StoreLocalStep
    \/ StoreS3Step
    \/ HostSet

SpecOne ==
    /\ Init
    /\ [][NextOne]_vars
    /\ WF_vars(LookupStep)
    /\ WF_vars(ProcessStep)
    /\ WF_vars(StoreLocalStep)
    /\ WF_vars(StoreS3Step)

----------------------------------------------------------------------------
(* SpecConcurrent: two calls of processImage with the same arguments, both *)
(* in flight.                                                              *)

\* The arguments of the pairs of calls.
ConcurrentArgs ==
    { BaseArgs,
      [BaseArgs EXCEPT !.originalFilename = "b.jpg"],
      [BaseArgs EXCEPT !.options.transformations = Obj(RotateThenFlip)] }

\* processImage is called twice with the same arguments, and both calls are
\* at their cache lookup (index.js 285) before either goes on.
CallTwice ==
    \E args \in ConcurrentArgs :
        /\ issued = 0
        /\ req' = [r \in Reqs |-> Begun(args, FALSE)]
        /\ issued' = 2
        /\ UNCHANGED <<config, cacheDirs, cachePayloads, cacheMeta,
                       localFiles, s3Objects, api>>

\* The two calls go on in any interleaving of their awaits.
NextConcurrent == CallTwice \/ LookupStep \/ ProcessStep

SpecConcurrent == Init /\ [][NextConcurrent]_vars

----------------------------------------------------------------------------
(* SpecConstruct: new ImageResizer(config) under an environment. *)

\* The variables of the environment that hold the S3 credentials and bucket.
S3Variables ==
    {"AWS_ACCESS_KEY_ID", "AWS_SECRET_ACCESS_KEY", "AWS_REGION",
     "AWS_S3_BUCKET_NAME"}

\* process.env: the flags as their strings, the path as a string ("" when
\* not set) and the set of the S3 variables that are set: all, all but one,
\* or none.
Environments ==
    [ ENABLE_LOCAL_STORAGE : {"true", "false", "undefined"},
      LOCAL_STORAGE_PATH : {"", "/uploads"},
      ENABLE_S3_STORAGE : {"true", "false"},
      s3Set : {S3Variables, {}} \cup {S3Variables \ {v} : v \in S3Variables},
      ENABLE_IMAGE_CACHE : {"true", "false"} ]

\* The size profiles a host may configure: a width and a default quality,
\* each with its JavaScript kind.
SizeProfiles ==
    [ width : {Num(100), Num(0), Num(-5), Other, Undefined},
      defaultQuality : {Num(80), Num(0), Num(101), Num(-1), Undefined} ]

\* config.customSizes: none, or one profile, under the key of a default
\* profile or under a new key.
CustomSizes ==
    {Undefined} \cup
    { Obj(<< <<key, profile>> >>) :
        key \in {"small", "xl"}, profile \in SizeProfiles }

\* { ...DEFAULT_SIZES, ...config.customSizes } (index.js 44-47).
MergedSizes(customSizes) ==
    LET defaults == [i \in 1..Len(DEFAULT_SIZES) |->
                        <<DEFAULT_SIZES[i][1],
                          [width |-> Num(DEFAULT_SIZES[i][2].width),
                           defaultQuality |->
                               Num(DEFAULT_SIZES[i][2].defaultQuality)]>>]
    IN  IF customSizes.kind # "object" THEN defaults
        ELSE PutPair(defaults, customSizes.val[1][1], customSizes.val[1][2])

\* The two checks of a size profile (index.js 51, 57-61).
ProfileAccepted(profile) ==
    /\ profile.width.kind = "number"
    /\ profile.width.val[1] > 0
    /\ profile.defaultQuality.kind = "number"
    /\ profile.defaultQuality.val[1] >= 0
    /\ profile.defaultQuality.val[1] <= 100

\* A variant of the constructor that does not look at the S3 variables.
ConstructSkipsS3Variables(env, customSizes) ==
    LET sizes == MergedSizes(customSizes)
        enableLocal == env.ENABLE_LOCAL_STORAGE = "true"
        enableS3 == env.ENABLE_S3_STORAGE = "true"
        thrown(error) == [thrown |-> error, instance |-> None]
    IN  IF \E i \in 1..Len(sizes) : ~ProfileAccepted(sizes[i][2])
        THEN thrown("ConfigurationError")
        ELSE IF ~enableLocal /\ ~enableS3
        THEN thrown("ConfigurationError")
        ELSE IF enableLocal /\ env.LOCAL_STORAGE_PATH = ""
        THEN thrown("ConfigurationError")
        ELSE [thrown |-> "none",
              instance |-> Some([enableLocal |-> enableLocal,
                                 enableS3 |-> enableS3,
                                 cacheEnabled |->
                                     env.ENABLE_IMAGE_CACHE = "true"])]

\* index.js 38-125: the constructor: what it throws, and the instance it
\* leaves otherwise.
Construct(env, customSizes) ==
    LET sizes == MergedSizes(customSizes)
        enableLocal == env.ENABLE_LOCAL_STORAGE = "true"
        enableS3 == env.ENABLE_S3_STORAGE = "true"
        thrown(error) == [thrown |-> error, instance |-> None]
    IN  IF \E i \in 1..Len(sizes) : ~ProfileAccepted(sizes[i][2])
        THEN thrown("ConfigurationError")
        ELSE IF ~enableLocal /\ ~enableS3
        THEN thrown("ConfigurationError")
        ELSE IF enableLocal /\ env.LOCAL_STORAGE_PATH = ""
        THEN thrown("ConfigurationError")
        ELSE IF enableS3 /\ env.s3Set # S3Variables
        THEN thrown("ConfigurationError")
        ELSE [thrown |-> "none",
              instance |-> Some([enableLocal |-> enableLocal,
                                 enableS3 |-> enableS3,
                                 cacheEnabled |->
                                     env.ENABLE_IMAGE_CACHE = "true"])]

\* new ImageResizer({ customSizes }) under `env`; the call and what it gave
\* are kept in `api`.
ConstructCall ==
    /\ api.op = "none"
    /\ \E env \in Environments, customSizes \in CustomSizes :
          LET made == Construct(env, customSizes)
          IN  api' = [ calls |-> 0, op |-> "construct", env |-> env,
                       customSizes |-> customSizes,
                       thrown |-> made.thrown, instance |-> made.instance ]
    /\ UNCHANGED <<config, req, issued, cacheDirs, cachePayloads,
                   cacheMeta, localFiles, s3Objects>>

NextConstruct == ConstructCall

SpecConstruct == Init /\ [][NextConstruct]_vars

----------------------------------------------------------------------------
(* SpecUnits: one run of processAndGenerateImages, from await to await. *)

\* The options of the runs: one, two or all three sizes.
UnitOptions ==
    { [NoOptions EXCEPT !.processSizes = sizes] :
        sizes \in {Undefined, Arr(<<"small">>), Arr(<<"large", "small">>)} }

\* A variant that works through the sizes one after the other: only the
\* first unit is started.
StartUnitsOneByOne(units) ==
    [k \in DOMAIN units |-> IF k = 1 THEN "inflight" ELSE "idle"]

\* part_001 211-261: sizesToProcess.map(async ...) calls the function of
\* every size, and each call runs up to its first await, the encode.
StartUnits(units) == [k \in DOMAIN units |-> "inflight"]

\* The run up to its first await: sharp(), metadata(), the transformations,
\* the format, and the call of toBuffer for the original (part_001 56-184).
\* An unsupported format ends the run before that call (161-168).
RunStart(bytes, o) ==
    LET supported == ResolveOutputFormat(o, Payloads[bytes], TRUE)
                        \in SUPPORTED_OUTPUT_FORMATS
    IN  /\ api.op = "none"
        /\ api' = [ calls |-> 0, op |-> "run", bytes |-> bytes,
                    options |-> o,
                    original |-> IF supported THEN "inflight" ELSE "idle",
                    units |-> [k \in 1..Len(SizesToProcess(o)) |-> "idle"],
                    settled |-> IF supported THEN "pending" ELSE "rejected",
                    thrown |-> IF supported THEN "none"
                               ELSE "ConfigurationError",
                    first |-> None,
                    images |-> <<>> ]
        /\ UNCHANGED <<config, req, issued, cacheDirs, cachePayloads,
                       cacheMeta, localFiles, s3Objects>>

\* A variant that joins the units like Promise.allSettled: the run is
\* rejected only when no unit is in flight any more.
SettleWaitsForAll(run, units, failed) ==
    IF run.settled # "pending" THEN run
    ELSE IF \E k \in DOMAIN units : units[k] = "inflight" THEN run
    ELSE IF failed \/ \E k \in DOMAIN units : units[k] = "failed"
    THEN [run EXCEPT !.settled = "rejected",
                     !.thrown = "ImageProcessingError"]
    ELSE [run EXCEPT
            !.settled = "resolved",
            !.images = GeneratedImages(run.bytes, run.options,
                          ResolveOutputFormat(run.options,
                                              Payloads[run.bytes], TRUE))]

\* The promise of Promise.all(processingPromises) and, with it, the run:
\* rejected with the first failure, resolved when every unit has a result
\* (part_001 263-275).
Settle(run, units, failed) ==
    IF run.settled # "pending" THEN run
    ELSE IF failed
    THEN [run EXCEPT !.settled = "rejected",
                     !.thrown = "ImageProcessingError"]
    ELSE IF \A k \in DOMAIN units : units[k] = "done"
    THEN [run EXCEPT
            !.settled = "resolved",
            !.images = GeneratedImages(run.bytes, run.options,
                          ResolveOutputFormat(run.options,
                                              Payloads[run.bytes], TRUE))]
    ELSE run

\* The encode of the original answers (part_001 184-205): on a failure the
\* run throws (186-190); else the original is pushed and the size units are
\* started (211), and the run awaits them (264).
OriginalSettles(ok) ==
    /\ api.op = "run"
    /\ api.original = "inflight"
    /\ api' = IF ok
              THEN LET units == StartUnits(api.units)
                   IN  Settle([api EXCEPT !.original = "done",
                                          !.units = units], units, FALSE)
              ELSE Settle([api EXCEPT !.original = "failed",
                                      !.first = Some(0)], api.units, TRUE)
    /\ UNCHANGED <<config, req, issued, cacheDirs, cachePayloads,
                   cacheMeta, localFiles, s3Objects>>

\* The encode of size unit k answers (part_001 225-260).  A unit still in
\* flight when the run has thrown goes on to its end.  `first` is the unit
\* whose failure was the first of the run (0 is the original).
UnitSettles(k, ok) ==
    /\ api.op = "run"
    /\ k \in DOMAIN api.units
    /\ api.units[k] = "inflight"
    /\ LET units == [api.units EXCEPT ![k] = IF ok THEN "done" ELSE "failed"]
           first == IF ~ok /\ api.first = None THEN Some(k) ELSE api.first
       IN  api' = Settle([api EXCEPT !.units = units, !.first = first],
                         units, ~ok)
    /\ UNCHANGED <<config, req, issued, cacheDirs, cachePayloads,
                   cacheMeta, localFiles, s3Objects>>

RunStartStep ==
    \E bytes \in PipelineSources, o \in UnitOptions : RunStart(bytes, o)

OriginalSettlesStep == \E ok \in BOOLEAN : OriginalSettles(ok)

UnitSettlesStep ==
    \E k \in 1..Len(KeysOf(DEFAULT_SIZES)), ok \in BOOLEAN : UnitSettles(k, ok)

NextUnits == RunStartStep \/ OriginalSettlesStep \/ UnitSettlesStep

SpecUnits == Init /\ [][NextUnits]_vars

----------------------------------------------------------------------------
(* Properties of processImage (Spec) *)

\* The arguments pass every check of processImage and of the pipeline: a
\* supported image, a file name, options the library accepts, a generator
\* that returns a name.
WellFormed(rec) ==
    /\ ValidateArguments(rec.source, rec.originalFilename, rec.options) = "none"
    /\ Payloads[rec.source.bytes].mime \in SUPPORTED_IMAGE_MIME_TYPES
    /\ ResolveOutputFormat(rec.options, Payloads[rec.source.bytes], TRUE)
          \in SUPPORTED_OUTPUT_FORMATS
    /\ rec.options.filenameGenerator \in {"undefined", "genPlain"}

\* The request ran into a failure of its environment: the stream, the codec
\* or a storage backend.
EnvironmentFailed(rec) ==
    rec.cause \in {"Error", "ImageProcessingError", "StorageError"}

\* The metadata of the result is that of the variants asked for.
MetadataComplete(rec) ==
    /\ IsSome(rec.results.metadata.original)
    /\ Range(KeysOf(rec.results.metadata.resized))
          = Range(SizesToProcess(rec.options))

\* C1: a request with a supported image, a file name and valid options, whose
\* stream, codec and backends all work, resolves, and its result carries the
\* metadata of the original and of every size asked for, on the miss path as
\* on the hit path.
C1_ValidRequestResolves ==
    \A r \in Reqs :
        (req[r].pc = "done" /\ WellFormed(req[r])
         /\ ~EnvironmentFailed(req[r]))
        => (req[r].outcome = "resolved" /\ MetadataComplete(req[r]))

\* C2: with the cache enabled, the second of two identical requests made one
\* after the other is a cache hit and never calls processAndGenerateImages.
C2_SecondIdenticalRequestHits ==
    ( /\ config.cacheEnabled
      /\ req.previous.pc = "done" /\ req.current.pc = "done"
      /\ WellFormed(req.previous)
      /\ ~EnvironmentFailed(req.previous) /\ ~EnvironmentFailed(req.current)
      /\ req.previous.readFailure \in {"none", "ENOENT"}
      /\ req.current.readFailure \in {"none", "ENOENT"}
      /\ api.calls = 0
      /\ req.current.source = req.previous.source
      /\ req.current.originalFilename = req.previous.originalFilename
      /\ req.current.options = req.previous.options )
    => (req.current.path = "hit" /\ req.current.pipelineCalls = 0)

C5_RejectedBeforeAnyWrite ==
    \A r \in Reqs :
        req[r].outcome \in {"ConfigurationError", "ImageProcessingError"}
        => /\ req[r].pc = "done"
           /\ req[r].setCalls = 0 /\ ~req[r].setWrote
           /\ req[r].localCalls = 0 /\ req[r].s3Calls = 0
           /\ req[r].results.local = None /\ req[r].results.s3 = None

\* A size unit failed after the original had been encoded.
C5_Witness ==
    \E r \in Reqs :
        /\ req[r].outcome = "ImageProcessingError"
        /\ req[r].cause = "ImageProcessingError"
        /\ req[r].pipelineCalls = 1
        /\ req[r].encodes = 1 + Len(SizesToProcess(req[r].options))

\* C6: getCachedImages never throws.  Whatever the read ran into (no entry,
\* a metadata document that does not parse, a file that cannot be read), it
\* returns null and the request goes on as a cache miss, to the pipeline.
C6_ReadFailureIsMiss ==
    \A r \in Reqs :
        req[r].readFailure \in {"ENOENT", "SyntaxError", "EIO"}
        => /\ req[r].path = "miss"
           /\ req[r].pc = "process" \/ req[r].pipelineCalls = 1

\* The metadata document of the entry was cut short by a failed write.
C6_Witness ==
    \E r \in Reqs :
        /\ req[r].readFailure = "SyntaxError"
        /\ req[r].path = "miss" /\ req[r].pc = "process"

\* C7: a failed cache write does not fail the request: a request on the miss
\* path whose pipeline succeeded and whose file names are valid calls
\* setCachedImages and goes on to the storage backends whatever that call
\* ran into.
C7_CacheWriteNeverFailsRequest ==
    \A r \in Reqs :
        (req[r].pc = "done" /\ req[r].path = "miss" /\ WellFormed(req[r])
         /\ ~EnvironmentFailed(req[r]))
        => (req[r].setCalls = 1
            /\ req[r].localCalls + req[r].s3Calls >= 1
            /\ req[r].outcome = "resolved")

\* C10: the cache key depends on the content and the options only: two
\* requests with the same bytes and the same options have the same key, also
\* when their original file names differ.
C10_KeyIgnoresFilename ==
    ( /\ IsSome(req.current.cacheKey) /\ IsSome(req.previous.cacheKey)
      /\ req.current.source.bytes = req.previous.source.bytes
      /\ req.current.options = req.previous.options )
    => req.current.cacheKey = req.previous.cacheKey

----------------------------------------------------------------------------
(* Properties of the CacheManager (SpecCache) *)

\* The variants as the cache keeps them: size key, payload and metadata.
Stored(images) ==
    { [sizeKey |-> images[i].sizeKey, buffer |-> images[i].buffer,
       metadata |-> images[i].metadata] : i \in 1..Len(images) }

\* C8: getCachedImages right after a successful setCachedImages of a variant
\* set under the same key, with every file readable, returns that set: the
\* same size keys, one variant each, with the same payload and metadata.
C8_RoundTrip ==
    (api.op = "get" /\ api.wrote /\ api.failure # "EIO"
     /\ IsVariantSet(api.images))
    => /\ IsSome(api.result)
       /\ Len(Get(api.result)) = Len(api.images)
       /\ IsVariantSet(Get(api.result))
       /\ Stored(Get(api.result)) = Stored(api.images)

C8_Witness ==
    /\ api.op = "get" /\ api.wrote /\ api.failure = "none"
    /\ Len(api.images) = 2 /\ IsVariantSet(api.images)
    /\ IsSome(api.result) /\ Len(Get(api.result)) = 2

\* C9: clearCache removes every entry; when the removal fails it throws a
\* StorageError, so a return without error means the cache is empty.
C9_ClearRemovesOrThrows ==
    api.op = "clear"
    => /\ api.thrown \in {"none", "StorageError"}
       /\ api.thrown = "none"
             => (cacheDirs = {} /\ cachePayloads = {} /\ cacheMeta = {})

\* A removal that failed and left an entry behind.
C9_Witness ==
    /\ api.op = "clear" /\ api.thrown = "StorageError"
    /\ cacheDirs # {} /\ cacheMeta # {}

----------------------------------------------------------------------------
(* Further properties of processImage (Spec) *)

\* Two option sets with the same members and values; the members of the
\* transformations object may have been inserted in another order.
SameUpToInsertionOrder(o1, o2) ==
    /\ o1.outputFormat = o2.outputFormat
    /\ o1.quality = o2.quality
    /\ o1.optimizeOutputFormat = o2.optimizeOutputFormat
    /\ o1.processSizes = o2.processSizes
    /\ o1.filenameGenerator = o2.filenameGenerator
    /\ o1.transformations.kind = o2.transformations.kind
    /\ Len(o1.transformations.val) = Len(o2.transformations.val)
    /\ Range(o1.transformations.val) = Range(o2.transformations.val)

\* C11: the cache key does not depend on the insertion order of the option
\* fields: two requests for the same bytes and file name, whose options have
\* the same members and values in another order, get the same key.
C11_KeyIgnoresInsertionOrder ==
    ( /\ IsSome(req.current.cacheKey) /\ IsSome(req.previous.cacheKey)
      /\ req.current.source.bytes = req.previous.source.bytes
      /\ req.current.originalFilename = req.previous.originalFilename
      /\ SameUpToInsertionOrder(req.current.options, req.previous.options) )
    => req.current.cacheKey = req.previous.cacheKey

\* width, height and format of the metadata of a result, per variant.
CoreOf(m) == [width |-> m.width, height |-> m.height, format |-> m.format]

CoreMetadata(metadata) ==
    [ original |-> IF IsSome(metadata.original)
                   THEN Some(CoreOf(Get(metadata.original))) ELSE None,
      resized |-> [i \in 1..Len(metadata.resized) |->
                      <<metadata.resized[i][1],
                        CoreOf(metadata.resized[i][2])>>] ]

\* C12: processing the same bytes with the same options twice gives two
\* results whose metadata agree on width, height and format for every
\* variant, whether the second call was a cache hit or not.
C12_SameMetadataTwice ==
    ( /\ req.previous.pc = "done" /\ req.current.pc = "done"
      /\ WellFormed(req.previous)
      /\ ~EnvironmentFailed(req.previous) /\ ~EnvironmentFailed(req.current)
      /\ req.current.source.bytes = req.previous.source.bytes
      /\ req.current.options = req.previous.options )
    => /\ req.previous.outcome = "resolved"
       /\ req.current.outcome = "resolved"
       /\ CoreMetadata(req.current.results.metadata)
             = CoreMetadata(req.previous.results.metadata)

\* The source is a Buffer or a stream and the file name is not empty: the
\* two checks that come before the ones on the options.
SourceAndNameGiven(rec) ==
    rec.source.kind \in {"buffer", "stream"} /\ rec.originalFilename # ""

InvalidQuality(o) ==
    /\ o.quality.kind # "undefined"
    /\ \/ o.quality.kind # "number"
       \/ o.quality.val[1] < 0
       \/ o.quality.val[1] > 100

\* Nothing of the pipeline has run for the request: no read of the source,
\* no cache key, no cache access, no codec call, no storage call.
NoPipelineWork(rec) ==
    /\ ~rec.read
    /\ rec.cacheKey = None /\ rec.path = "none" /\ rec.readFailure = "none"
    /\ rec.pipelineCalls = 0 /\ rec.encodes = 0 /\ rec.images = <<>>
    /\ rec.setCalls = 0 /\ rec.localCalls = 0 /\ rec.s3Calls = 0

C14_NonImageRejected ==
    \A r \in Reqs :
        ( /\ req[r].pc # "idle"
          /\ ValidateArguments(req[r].source, req[r].originalFilename,
                               req[r].options) = "none"
          /\ Payloads[req[r].source.bytes].mime
                \notin SUPPORTED_IMAGE_MIME_TYPES )
        => /\ req[r].pc = "done"
           /\ req[r].outcome = "ImageProcessingError"
           /\ req[r].images = <<>> /\ req[r].pipelineCalls = 0
           /\ req[r].encodes = 0
           /\ req[r].cacheKey = None /\ req[r].path = "none"
           /\ req[r].setCalls = 0
           /\ req[r].localCalls = 0 /\ req[r].s3Calls = 0

C14_Witness ==
    \E r \in Reqs :
        /\ req[r].pc = "done" /\ req[r].read
        /\ Payloads[req[r].source.bytes].mime = "text/plain"
        /\ req[r].outcome = "ImageProcessingError"

InvalidSizes(o) ==
    \/ o.processSizes.kind \notin {"undefined", "array"}
    \/ /\ o.processSizes.kind = "array"
       /\ \E i \in 1..Len(o.processSizes.val) :
             o.processSizes.val[i] \notin SizeKeys

\* C15: every invalid processSizes value, an array with an unknown size key
\* as well as a value that is no array, is rejected with a
\* ConfigurationError before any pipeline work.
C15_BadSizesRejectedFirst ==
    \A r \in Reqs :
        (req[r].pc # "idle" /\ SourceAndNameGiven(req[r])
         /\ ~InvalidQuality(req[r].options)
         /\ InvalidSizes(req[r].options))
        => /\ req[r].pc = "done"
           /\ req[r].outcome = "ConfigurationError"
           /\ req[r].pipelineCalls = 0 /\ req[r].cacheKey = None

\* C16: whatever the input and whatever fails, a call of processImage that
\* rejects does so with a ConfigurationError, an ImageProcessingError or a
\* StorageError.
C16_OnlyLibraryErrors ==
    \A r \in Reqs :
        req[r].pc = "done"
        => req[r].outcome \in {"resolved", "ConfigurationError",
                               "ImageProcessingError", "StorageError"}

\* The naming strategy of the request returns the empty string for one of
\* the images the request has to name.
NamesSomeImageEmpty(rec) ==
    /\ rec.options.filenameGenerator \in FilenameGenerators
    /\ \E i \in 1..Len(rec.images) :
          GeneratedFilename(rec.options.filenameGenerator, rec.images[i],
                            PathParseName(rec.originalFilename),
                            getFileExtensionForFormat(
                                rec.images[i].metadata.format)) = <<>>

\* C26: when the naming strategy returns the empty string for any of the
\* variants, on the hit path or on the miss path, the request is rejected
\* with a ConfigurationError, and no storage backend was called.
C26_EmptyNameIsConfigurationError ==
    \A r \in Reqs :
        ( /\ req[r].pc = "done"
          /\ req[r].options.filenameGenerator # "genThrows"
          /\ NamesSomeImageEmpty(req[r]) )
        => /\ req[r].outcome = "ConfigurationError"
           /\ req[r].localCalls = 0
           /\ req[r].s3Calls = 0

\* The keys of a result that stand for storage backends.
BackendKeys(results) == DOMAIN results \ {"metadata"}

SomeNamed(rec) ==
    \E i \in 1..Len(rec.images) : rec.images[i].filename # <<>>

AllNamed(rec) ==
    \A i \in 1..Len(rec.images) : rec.images[i].filename # <<>>

\* C30: on a miss the cache write comes between the pipeline and the
\* resolution of the file names: when a request on the miss path has named
\* an image, it has run the pipeline and written the cache entry before.  On
\* a hit neither the pipeline nor the cache write is run.
C30_CacheWriteBeforeNames ==
    \A r \in Reqs :
        /\ (req[r].path = "miss" /\ SomeNamed(req[r]))
           => (req[r].pipelineCalls = 1 /\ req[r].setCalls = 1)
        /\ req[r].path = "hit"
           => (req[r].pipelineCalls = 0 /\ req[r].setCalls = 0)

\* C30, as the code has it: on a miss the pipeline runs first and the file
\* names are resolved next, before any cache write: setCachedImages is called
\* only when every image has its name, and a backend only after that.  On a
\* hit the pipeline and the cache write are skipped and the file names are
\* resolved before a backend is called.
C30_NamesBeforeCacheWrite ==
    \A r \in Reqs :
        /\ (req[r].path = "miss" /\ SomeNamed(req[r]))
           => req[r].pipelineCalls = 1
        /\ (req[r].path = "miss" /\ SomeNamed(req[r])
            /\ req[r].pc \notin {"cacheSet", "local", "s3"}
            /\ req[r].outcome # "resolved")
           => req[r].setCalls = 0
        /\ (req[r].setCalls >= 1 \/ req[r].pc = "cacheSet")
           => (req[r].path = "miss" /\ req[r].pipelineCalls = 1
               /\ AllNamed(req[r]))
        /\ (req[r].localCalls + req[r].s3Calls >= 1
            \/ req[r].pc \in {"local", "s3"})
           => /\ AllNamed(req[r])
              /\ req[r].path = "miss" => req[r].setCalls = 1
        /\ req[r].path = "hit"
           => (req[r].pipelineCalls = 0 /\ req[r].setCalls = 0)

\* A request on the hit path that named its images and called a backend,
\* and after it a request on the miss path that ran the pipeline and named
\* an image without a cache write before.
C30_Witness ==
    /\ req.previous.path = "hit"
    /\ Len(req.previous.images) >= 1
    /\ AllNamed(req.previous)
    /\ req.previous.localCalls + req.previous.s3Calls >= 1
    /\ req.current.path = "miss"
    /\ req.current.pipelineCalls = 1
    /\ SomeNamed(req.current)
    /\ req.current.setCalls = 0

CacheFiles == <<cacheDirs, cachePayloads, cacheMeta>>

\* C33: a lookup of the cache, hit or miss, leaves every file of the cache as
\* it is, and so does every later step of a request on the hit path, which
\* never calls setCachedImages.
C33_HitLeavesCacheUnchanged ==
    [][ \A r \in Reqs :
          /\ (req[r].pc = "lookup" /\ req'[r] # req[r])
             => CacheFiles' = CacheFiles
          /\ (req'[r] # req[r] /\ req'[r].path = "hit")
             => /\ CacheFiles' = CacheFiles
                /\ req'[r].setCalls = 0
                /\ req'[r].pc # "cacheSet" ]_vars

\* A request on the hit path has resolved after a backend was called, with
\* the entry it was served from still in the cache.
C33_Witness ==
    \E r \in Reqs :
        /\ req[r].path = "hit"
        /\ req[r].outcome = "resolved"
        /\ req[r].localCalls + req[r].s3Calls >= 1
        /\ req[r].setCalls = 0
        /\ IsSome(getCachedImages(config.cacheEnabled, cachePayloads,
                                  cacheMeta, Get(req[r].cacheKey),
                                  "none").images)

\* Identifiers a processing session could have.
SessionIds == {"id1", "id2"}

\* The default file name of C25 for an image, with the session id `sid`.
SessionFilename(img, baseName, sid, extension) ==
    IF img.sizeKey = "original"
    THEN <<baseName, "-", sid, ".original.", extension>>
    ELSE <<"resized/", img.sizeKey, "/", baseName, "-", sid, ".", img.sizeKey,
           ".", extension>>

\* Every image of the request that was named has the default name of C25
\* under the session id `sid`.
NamedWithSession(rec, sid) ==
    \A i \in 1..Len(rec.images) :
        rec.images[i].filename # <<>>
        => rec.images[i].filename
              = SessionFilename(rec.images[i],
                    PathParseName(rec.originalFilename), sid,
                    getFileExtensionForFormat(rec.images[i].metadata.format))

\* C25: without a naming strategy the original is named
\* <baseName>-<sessionId>.original.<ext> and a size variant
\* resized/<sizeKey>/<baseName>-<sessionId>.<sizeKey>.<ext>, with one session
\* id for all variants of a request and another for another request, and
\* with the extension jpg for the format jpeg.
C25_DefaultNamesCarrySessionId ==
    \E sidCurrent, sidPrevious \in SessionIds :
        /\ sidCurrent # sidPrevious
        /\ req.current.options.filenameGenerator = "undefined"
           => NamedWithSession(req.current, sidCurrent)
        /\ req.previous.options.filenameGenerator = "undefined"
           => NamedWithSession(req.previous, sidPrevious)

----------------------------------------------------------------------------
(* Properties of processAndGenerateImages (SpecPipeline) *)

\* A run of the pipeline in which the codec did not fail.
PipelineRan == api.op = "pipeline" /\ api.fault = "none"

MinOf(a, b) == IF a < b THEN a ELSE b

\* C17: a size variant is never wider than its source: its width is the
\* smaller of the source's width and the profile's.
C17_DownscaleOnly ==
    (PipelineRan /\ api.thrown = "none")
    => \A i \in 1..Len(api.images) :
          api.images[i].sizeKey # "original"
          => api.images[i].metadata.width
                = MinOf(Payloads[api.bytes].width,
                        SizeConfig(api.images[i].sizeKey).width)

\* C18: a variant is encoded with the quality of the request when one is
\* given (0 included), else with the default quality of its size profile,
\* and the original with 100.
C18_QualityResolution ==
    (PipelineRan /\ api.thrown = "none")
    => \A i \in 1..Len(api.images) :
          api.images[i].buffer.quality
             = IF api.options.quality.kind = "number"
               THEN api.options.quality.val[1]
               ELSE IF api.images[i].sizeKey = "original" THEN 100
               ELSE SizeConfig(api.images[i].sizeKey).defaultQuality

\* C19: an output format given with the request is the format of every
\* variant (in lower case), whatever optimizeOutputFormat and the alpha
\* channel of the source are.
C19_ExplicitFormatWins ==
    (PipelineRan /\ api.thrown = "none"
     /\ api.options.outputFormat # "undefined")
    => \A i \in 1..Len(api.images) :
          api.images[i].metadata.format
             = ToLowerCase(api.options.outputFormat)

\* C20: for a source with an alpha channel, optimizeOutputFormat on and no
\* format given, the run succeeds and every variant has the same format, one
\* that keeps transparency, whatever the media type of the source.
C20_AlphaSourceOptimized ==
    ( /\ PipelineRan
      /\ Payloads[api.bytes].mime \in SUPPORTED_IMAGE_MIME_TYPES
      /\ Payloads[api.bytes].hasAlpha
      /\ api.options.optimizeOutputFormat
      /\ api.options.outputFormat = "undefined" )
    => /\ api.thrown = "none"
       /\ Len(api.images) >= 1
       /\ \A i \in 1..Len(api.images) :
             /\ api.images[i].metadata.format \in {"png", "webp", "avif"}
             /\ api.images[i].metadata.format
                   = api.images[1].metadata.format

\* The output format the run resolves for the call kept in `api`.
ResolvedFormat ==
    ResolveOutputFormat(api.options, Payloads[api.bytes],
                        api.fault # "metadata")

\* C21: when the resolved output format is not a supported one, the run
\* throws a ConfigurationError (unless the codec failed before the format was
\* resolved) and in either case no encode was started, for the original or
\* for a size, and no variant exists; a ConfigurationError of the run always
\* comes before any encode.
C21_UnsupportedFormatBeforeEncode ==
    /\ ( api.op = "pipeline"
         /\ ResolvedFormat \notin SUPPORTED_OUTPUT_FORMATS )
       => /\ api.encodes = 0
          /\ api.images = <<>>
          /\ api.thrown \in {"ConfigurationError", "ImageProcessingError"}
          /\ api.fault \in {"none", "metadata", "original", "unit"}
             => api.thrown = "ConfigurationError"
    /\ ( api.op = "pipeline" /\ api.thrown = "ConfigurationError" )
       => api.encodes = 0 /\ api.images = <<>>

\* A run whose format was resolved from the source (a GIF), is not
\* supported, and which threw the ConfigurationError with the encode of the
\* original about to fail.
C21_Witness ==
    /\ api.op = "pipeline"
    /\ api.options.outputFormat = "undefined"
    /\ ResolvedFormat \notin SUPPORTED_OUTPUT_FORMATS
    /\ api.fault = "original"
    /\ api.thrown = "ConfigurationError"
    /\ api.encodes = 0

\* The keys of the transformations object of the call kept in `api`.
TransformationKeys ==
    IF api.options.transformations.kind = "object"
    THEN KeysOf(api.options.transformations.val) ELSE <<>>

----------------------------------------------------------------------------
(* Properties of the units of a run (SpecUnits) *)

\* C23: the re-encode of the original and the size variants are units that
\* are processed concurrently: the size units do not wait for the original,
\* so while the encode of the original is in flight the encodes of the sizes
\* are in flight too.
C23_OriginalConcurrentWithSizes ==
    (api.op = "run" /\ api.original = "inflight")
    => \A k \in DOMAIN api.units : api.units[k] = "inflight"

\* C23, as the code has it: the original is encoded first and awaited, and no
\* size unit is started before it has succeeded; then all size units are
\* started together and are in flight concurrently.  The run resolves only
\* when the original and every size unit have finished, and is rejected as
\* soon as the original or one size unit has failed, while other size units
\* may still be in flight.
C23_SizesConcurrentAfterOriginal ==
    api.op = "run"
    => /\ api.original \in {"idle", "inflight", "failed"}
          => \A k \in DOMAIN api.units : api.units[k] = "idle"
       /\ api.original = "done"
          => \A k \in DOMAIN api.units : api.units[k] # "idle"
       /\ api.settled = "resolved"
          <=> /\ api.original = "done"
              /\ \A k \in DOMAIN api.units : api.units[k] = "done"
       /\ api.settled = "rejected"
          <=> \/ api.original \in {"idle", "failed"}
              \/ \E k \in DOMAIN api.units : api.units[k] = "failed"
       /\ api.settled = "resolved"
          => Len(api.images) = 1 + Len(api.units)

\* The original is done and two size units are in flight at the same time.
C23_Witness ==
    /\ api.op = "run"
    /\ api.original = "done"
    /\ api.settled = "pending"
    /\ \E j, k \in DOMAIN api.units :
          j # k /\ api.units[j] = "inflight" /\ api.units[k] = "inflight"

\* C31: when a size unit of a run fails while others are in flight, the run
\* is rejected at once, with that first failure; the units in flight are not
\* cancelled: each goes on to its own end, done or failed, and what the run
\* has thrown stays as it is; no image of the run is ever returned.
C31_FirstRejectionWins ==
    [][ api'.op = "run"
        => /\ (\E k \in DOMAIN api'.units : api'.units[k] = "failed")
              => /\ api'.settled = "rejected"
                 /\ api'.images = <<>>
                 /\ IsSome(api'.first)
                 /\ api'.units[Get(api'.first)] = "failed"
           /\ (api.op = "run" /\ api.settled = "rejected")
              => /\ api'.settled = "rejected"
                 /\ api'.thrown = api.thrown
                 /\ api'.first = api.first
                 /\ api'.images = <<>>
                 /\ \A k \in DOMAIN api.units :
                       /\ api.units[k] \in {"done", "failed"}
                          => api'.units[k] = api.units[k]
                       /\ api.units[k] = "inflight"
                          => api'.units[k] \in {"inflight", "done", "failed"}
      ]_vars

\* A run rejected by the failure of one size unit, in which one sibling has
\* failed later and one has come to its end with a result: every unit has
\* finished and nothing is returned.
C31_Witness ==
    /\ api.op = "run"
    /\ api.settled = "rejected"
    /\ api.images = <<>>
    /\ \E j, k, l \in DOMAIN api.units :
          /\ api.first = Some(k)
          /\ j # k /\ api.units[j] = "failed"
          /\ api.units[l] = "done"

----------------------------------------------------------------------------
(* Properties of two calls in flight (SpecConcurrent) *)

\* Both calls have returned, had the same cache key, missed the cache and ran
\* the pipeline, and the environment failed for neither.
BothMissedAndRan ==
    /\ req.current.cacheKey = req.previous.cacheKey
    /\ \A r \in Reqs :
          /\ req[r].pc = "done"
          /\ req[r].path = "miss"
          /\ req[r].pipelineCalls = 1
          /\ WellFormed(req[r])
          /\ ~EnvironmentFailed(req[r])

\* C24: when two concurrent requests with the same fingerprint both miss and
\* both run the pipeline, both write the cache entry and both complete with
\* the same variant metadata, and with the cache enabled the entry that is
\* left is a complete one.
C24_ConcurrentMissesBothComplete ==
    BothMissedAndRan
    => /\ \A r \in Reqs :
             /\ req[r].outcome = "resolved"
             /\ req[r].setCalls = 1
             /\ MetadataComplete(req[r])
       /\ req.current.results.metadata = req.previous.results.metadata
       /\ config.cacheEnabled
          => IsSome(getCachedImages(TRUE, cachePayloads, cacheMeta,
                                    Get(req.current.cacheKey), "none").images)

\* C29: entries of different cache keys do not touch: a setCachedImages call
\* for one key, complete or cut short by a failure, leaves what
\* getCachedImages gives for every other key as it was.
C29_DisjointNamespaces ==
    [][ (api'.op = "set" /\ api'.calls = api.calls + 1)
        => \A cacheKey \in ApiKeys \ {Get(api'.key)} :
              getCachedImages(config.cacheEnabled, cachePayloads',
                              cacheMeta', cacheKey, "none")
                 = getCachedImages(config.cacheEnabled, cachePayloads,
                                   cacheMeta, cacheKey, "none") ]_vars

\* A setCachedImages call for one key has written its entry while another
\* key has an entry that getCachedImages gives back.
C29_Witness ==
    /\ api.op = "set"
    /\ api.wrote
    /\ \E cacheKey \in ApiKeys \ {Get(api.key)} :
          LET got == getCachedImages(config.cacheEnabled, cachePayloads,
                                     cacheMeta, cacheKey, "none")
          IN  IsSome(got.images) /\ Len(Get(got.images)) >= 1

\* C35: on one key, whatever setCachedImages and clearCache calls came
\* before, complete or stopped at any of their writes, a result of
\* getCachedImages that is not null is the variant set of one
\* setCachedImages call, whole: every image of that call with its payload,
\* and nothing else.
C35_HitIsOneWholeSet ==
    \A cacheKey \in HostKeys :
        LET found == getCachedImages(config.cacheEnabled, cachePayloads,
                                     cacheMeta, cacheKey, "none").images
        IN  IsSome(found)
            => \E images \in VariantSets :
                  /\ Len(Get(found)) = Len(images)
                  /\ Stored(Get(found)) = Stored(images)

\* The default file names of the images of a run, in order.
DefaultFilenames(images) ==
    [i \in 1..Len(images) |->
        DefaultFilename(images[i], "a",
                        getFileExtensionForFormat(images[i].metadata.format))]

C38_AcceptedSourceHasOutputFormat ==
    /\ api.op = "pipeline"
    /\ Payloads[api.bytes].mime \in SUPPORTED_IMAGE_MIME_TYPES
    /\ api.options.outputFormat = "undefined"
    /\ ~api.options.optimizeOutputFormat
    => api.thrown # "ConfigurationError"

----------------------------------------------------------------------------
(* Termination of a call (SpecOne) *)

\* C40: a call of processImage, once made, resolves or rejects, provided
\* each call it awaits (the cache, the pipeline, a storage backend) returns
\* or fails.
C40_EveryCallSettles ==
    (issued = 1) ~> (req.current.pc = "done"
                     /\ req.current.outcome # "pending")

\* A call has settled after the cache could not be read.
C40_Witness ==
    /\ req.current.pc = "done"
    /\ req.current.readFailure # "none"
    /\ req.current.outcome # "pending"

----------------------------------------------------------------------------
(* Properties of one storage backend (SpecStore) *)

\* The object a persist of `img` leaves in a store.
ObjectOf(img) == [name |-> img.filename, buffer |-> img.buffer]

----------------------------------------------------------------------------
(* Properties of two instances over one cache directory (SpecShared) *)

----------------------------------------------------------------------------
(* Properties of a cleared cache (SpecClear) *)

\* The outcome of getCachedImages(cacheKey) on the files given, when no read
\* fails.
Found(payloads, meta, cacheKey) ==
    getCachedImages(config.cacheEnabled, payloads, meta, cacheKey,
                    "none").images

\* C34: after a clearCache that returned without error, getCachedImages
\* gives null for every key, and goes on doing so for a key until a
\* setCachedImages for that key; a setCachedImages made after the clear, if
\* no write of it fails, creates the directory of the entry again and
\* writes the entry, and the getCachedImages that follows gives back the
\* images written.
C34_ClearThenSetThenHit ==
    /\ (api.op = "clear" /\ api.thrown = "none")
       => /\ \A cacheKey \in ApiKeys :
                Found(cachePayloads, cacheMeta, cacheKey) = None
          /\ config.cacheEnabled
             => \A cacheKey \in ApiKeys, images \in CacheImages :
                   LET set == setCachedImages(TRUE, cacheDirs, cachePayloads,
                                  cacheMeta, cacheKey, images, 0, FALSE)
                   IN  /\ set.wrote
                       /\ cacheKey \in set.dirs
                       /\ IsSome(Found(set.payloads, set.meta, cacheKey))
    /\ (api.op = "set" /\ api.calls > 1)
       => \A cacheKey \in ApiKeys :
             (cacheKey # Get(api.key) \/ ~api.wrote)
             => Found(cachePayloads, cacheMeta, cacheKey) = None
    /\ (api.op = "set" /\ api.calls > 1 /\ api.wrote)
       => Get(api.key) \in cacheDirs
    /\ (api.op = "get" /\ ~api.wrote) => api.result = None
    /\ (api.op = "get" /\ api.wrote /\ api.failure # "EIO"
        /\ IsVariantSet(api.images))
       => /\ IsSome(api.result)
          /\ Stored(Get(api.result)) = Stored(api.images)

\* The cache was cleared, an entry of two images written after that, and the
\* getCachedImages for its key gave the two images back.
C34_Witness ==
    /\ api.op = "get"
    /\ api.wrote
    /\ Len(api.images) = 2
    /\ IsSome(api.result)
    /\ Stored(Get(api.result)) = Stored(api.images)

----------------------------------------------------------------------------
(* Properties of the constructor (SpecConstruct) *)

\* The custom profile of the call has a width that is no number above zero,
\* or a default quality that is no number of 0..100.
InvalidProfile ==
    /\ api.customSizes.kind = "object"
    /\ LET profile == api.customSizes.val[1][2]
       IN  \/ profile.width.kind # "number"
           \/ profile.width.val[1] <= 0
           \/ profile.defaultQuality.kind # "number"
           \/ profile.defaultQuality.val[1] < 0
           \/ profile.defaultQuality.val[1] > 100

NoBackendEnabled ==
    api.env.ENABLE_LOCAL_STORAGE # "true" /\ api.env.ENABLE_S3_STORAGE # "true"

\* An enabled backend lacks its path, or one of its credentials or its
\* bucket.
BackendIncomplete ==
    \/ api.env.ENABLE_LOCAL_STORAGE = "true" /\ api.env.LOCAL_STORAGE_PATH = ""
    \/ api.env.ENABLE_S3_STORAGE = "true" /\ api.env.s3Set # S3Variables

=============================================================================
